---- MODULE Spec2Model ----
(***************************************************************************)
(* A model of rlua's protected-operation library and callback trampoline   *)
(* (src/cbits/safe.c) on top of the Lua 5.3 C API.                         *)
(*                                                                         *)
(* The Lua state is a record L threaded through the API primitives in the  *)
(* order the C code calls them.  A raise (longjmp) is modelled by the flag *)
(* L.raised: while it is set every later primitive is skipped, which is    *)
(* what the non-local transfer does to the code after the raising call,    *)
(* until the nearest enclosing lua_pcall catches it.  A raise with no      *)
(* protected call active sets L.unwound: it left through the host's frame. *)
(***************************************************************************)
EXTENDS Integers, Sequences, FiniteSets, TLC

\* ----------------------------------------------------------------- bounds
MaxCalls == 2       \* API calls the host makes in one behaviour
InitLen == 2        \* height of the stack the host starts from, at most
MaxTables == 3      \* tables the allocator can hold before it is exhausted
MaxPush == 3        \* values a host callback pushes, at most
MaxArgs == 2        \* arguments a call of a callable passes, at most

\* -------------------------------------------------------------- constants
LUA_OK == 0
LUA_ERRRUN == 2
LUA_ERRMEM == 4
LUA_MULTRET == -1
LUA_REGISTRYINDEX == -1001000
RCALL_STACK_ERR == -2
RCALL_ERR == -3

\* ----------------------------------------------------------------- values
\* A tagged Lua value.  t: type tag; n: integer payload (integer value, table,
\* thread or userdata id); p: a native pointer (C function name, light userdata
\* address); b: the bytes of a string; up: the upvalues of a C closure.
Val(t, n, p, b, up) == [t |-> t, n |-> n, p |-> p, b |-> b, up |-> up]
NilV == Val("nil", 0, "", <<>>, <<>>)
IntV(i) == Val("int", i, "", <<>>, <<>>)
StrV(bytes) == Val("str", 0, "", bytes, <<>>)
TableV(id) == Val("table", id, "", <<>>, <<>>)
ThreadV(id) == Val("thread", id, "", <<>>, <<>>)
UdataV(id) == Val("udata", id, "", <<>>, <<>>)
LightV(addr) == Val("lud", 0, addr, <<>>, <<>>)
CFuncV(name, ups) == Val("cfunc", 0, name, <<>>, ups)

\* Error messages, as the bytes of their text.
MsgMem == <<110, 111, 116, 32, 101, 110, 111, 117, 103, 104, 32, 109, 101, 109, 111, 114, 121>>
MsgIndex == <<97, 116, 116, 101, 109, 112, 116, 32, 116, 111, 32, 105, 110, 100, 101, 120>>
MsgLength == <<97, 116, 116, 101, 109, 112, 116, 32, 116, 111, 32, 103, 101, 116, 32, 108, 101, 110, 103, 116, 104>>
MsgNext == <<105, 110, 118, 97, 108, 105, 100, 32, 107, 101, 121, 32, 116, 111, 32, 39, 110, 101, 120, 116, 39>>
MsgNilKey == <<116, 97, 98, 108, 101, 32, 105, 110, 100, 101, 120, 32, 105, 115, 32, 110, 105, 108>>
MsgCall == <<97, 116, 116, 101, 109, 112, 116, 32, 116, 111, 32, 99, 97, 108, 108>>
MsgMeta == <<98, 111, 111, 109>>
MsgOverflow == <<115, 116, 97, 99, 107, 32, 111, 118, 101, 114, 102, 108, 111, 119, 32, 105, 110, 32, 114, 117, 115, 116, 32, 99, 97, 108, 108, 98, 97, 99, 107>>

\* Native memory the host passes by address: string buffers (bytes, with the
\* terminating zero where the buffer is a C string).
Mem(addr) ==
    CASE addr = "buf_a0b" -> <<97, 0, 98, 0>>
      [] addr = "buf_hi" -> <<104, 105, 0>>
      [] OTHER -> <<0>>
Buffers == {"buf_a0b", "buf_hi"}
Callbacks == {"cb1", "cb2"}

\* ------------------------------------------------------------------ state
VARIABLES stack, tables, out, nobj, ncalls, call
vars == <<stack, tables, out, nobj, ncalls, call>>

\* The Lua state a call starts from: the persistent parts are the variables,
\* the rest is the execution context of one host call.  env holds what the
\* environment decides during the call: oom (the allocator fails inside the
\* risky primitive) and the host callback's behaviour cb.
Enter(env) ==
    [stack |-> stack, tables |-> tables, out |-> out, nobj |-> nobj,
     base |-> 0, depth |-> 0, cl |-> NilV,
     raised |-> FALSE, err |-> NilV, code |-> LUA_OK, unwound |-> FALSE, ub |-> FALSE,
     rc |-> LUA_OK, nret |-> 0, iret |-> 0, sret |-> NilV, returned |-> FALSE, ret |-> LUA_OK,
     pcalls |-> <<>>, frames |-> <<>>, called |-> <<>>, log |-> <<>>, env |-> env]

\* The element of a singleton set.  Only({e(x) : x \in {v}}) is e(v), with v
\* evaluated once.
Only(S) == CHOOSE x \in S : TRUE

\* ------------------------------------------------------- the raise mechanism
Event(L, prim, risky, raises) ==
    Append(L.log, [prim |-> prim, depth |-> L.depth, risky |-> risky, raised |-> raises])

\* A primitive that cannot raise ran.
Quiet(L, prim) == [L EXCEPT !.log = Event(L, prim, FALSE, FALSE)]

\* A primitive that may raise ran and did not.
Risky(L, prim) == [L EXCEPT !.log = Event(L, prim, TRUE, FALSE)]

\* luaD_throw: the raise.  With no protected call active it unwinds through
\* the host's frames.
Raise(L, prim, errv, code) ==
    [L EXCEPT !.log = Event(L, prim, TRUE, TRUE),
              !.raised = TRUE, !.err = errv, !.code = code,
              !.unwound = (L.depth = 0)]

\* An API precondition was violated: the engine's behaviour is undefined.
Undefined(L, prim) == [L EXCEPT !.log = Event(L, prim, FALSE, FALSE), !.ub = TRUE]

\* ------------------------------------------------------- stack addressing
lua_gettop(L) == Len(L.stack) - L.base

lua_upvalueindex(i) == LUA_REGISTRYINDEX - i

\* An acceptable stack index of the running function.
ValidIndex(L, idx) ==
    /\ idx # 0
    /\ idx > 0 => idx <= lua_gettop(L)
    /\ idx < 0 => -idx <= lua_gettop(L)

\* index2addr: the slot of the whole stack a valid index designates.
Slot(L, idx) == IF idx > 0 THEN L.base + idx ELSE Len(L.stack) + 1 + idx

\* index2addr: the value an index designates; an upvalue pseudo-index reads the
\* running closure; an invalid index designates no value.
index2value(L0, idx) ==
    Only({
        IF idx <= LUA_REGISTRYINDEX
        THEN LET i == LUA_REGISTRYINDEX - idx
             IN  IF i \in 1..Len(L.cl.up) THEN L.cl.up[i] ELSE NilV
        ELSE IF ValidIndex(L, idx) THEN L.stack[Slot(L, idx)] ELSE NilV
    : L \in {L0}})

lua_absindex(L0, idx) ==
    Only({
        IF idx > 0 \/ idx <= LUA_REGISTRYINDEX THEN idx ELSE lua_gettop(L) + idx + 1
    : L \in {L0}})

\* ----------------------------------------------- primitives that never raise
Push(L, v) == [L EXCEPT !.stack = Append(@, v)]

lua_pushvalue(L0, idx) ==
    Only({
        IF L.raised THEN L ELSE Push(Quiet(L, "lua_pushvalue"), index2value(L, idx))
    : L \in {L0}})

lua_pushinteger(L0, i) ==
    Only({
        IF L.raised THEN L ELSE Push(Quiet(L, "lua_pushinteger"), IntV(i))
    : L \in {L0}})

lua_pushlightuserdata(L0, addr) ==
    Only({
        IF L.raised THEN L ELSE Push(Quiet(L, "lua_pushlightuserdata"), LightV(addr))
    : L \in {L0}})

\* lua_pushcclosure with no upvalues: a light C function, nothing is allocated.
lua_pushcfunction(L0, name) ==
    Only({
        IF L.raised THEN L ELSE Push(Quiet(L, "lua_pushcfunction"), CFuncV(name, <<>>))
    : L \in {L0}})

\* lua_settop(L, -n-1)
lua_pop(L0, n) ==
    Only({
        IF L.raised THEN L
        ELSE IF n > lua_gettop(L) THEN Undefined(L, "lua_pop")
        ELSE [Quiet(L, "lua_pop") EXCEPT !.stack = SubSeq(@, 1, Len(@) - n)]
    : L \in {L0}})

\* Rotates the values from idx to the top n positions towards the top (n < 0:
\* -n positions towards the bottom).
lua_rotate(L0, idx, n) ==
    Only({
        IF L.raised THEN L
        ELSE IF ~ValidIndex(L, idx) THEN Undefined(L, "lua_rotate")
        ELSE LET p == Slot(L, idx)
                 m == Len(L.stack) - p + 1
                 seg == SubSeq(L.stack, p, Len(L.stack))
                 rot == [i \in 1..m |-> seg[((i - 1 - n) % m) + 1]]
             IN  IF n > m \/ -n > m THEN Undefined(L, "lua_rotate")
                 ELSE [Quiet(L, "lua_rotate") EXCEPT !.stack = SubSeq(@, 1, p - 1) \o rot]
    : L \in {L0}})

lua_insert(L, idx) == lua_rotate(L, idx, 1)

\* lua_copy(L, -1, idx) then lua_pop(L, 1)
lua_replace(L0, idx) ==
    Only({
        IF L.raised THEN L
        ELSE IF ~ValidIndex(L, idx) \/ lua_gettop(L) < 1 THEN Undefined(L, "lua_replace")
        ELSE LET v == L.stack[Len(L.stack)]
                 s1 == [L.stack EXCEPT ![Slot(L, idx)] = v]
             IN  [Quiet(L, "lua_replace") EXCEPT !.stack = SubSeq(s1, 1, Len(s1) - 1)]
    : L \in {L0}})

\* Native pointers: s names a native address, n a userdata block; NULL is neither.
Ptr(s, n) == [s |-> s, n |-> n]
NULL == Ptr("", 0)

lua_tointeger(L0, idx) ==
    Only({
        LET v == index2value(L, idx) IN IF v.t = "int" THEN v.n ELSE 0
    : L \in {L0}})

lua_touserdata(L0, idx) ==
    Only({
        LET v == index2value(L, idx)
        IN  CASE v.t = "lud" -> Ptr(v.p, 0)
              [] v.t = "udata" -> Ptr("udata", v.n)
              [] OTHER -> NULL
    : L \in {L0}})

lua_tothread(L0, idx) ==
    Only({
        LET v == index2value(L, idx) IN IF v.t = "thread" THEN v.n ELSE 0
    : L \in {L0}})

lua_tocfunction(L0, idx) ==
    Only({
        LET v == index2value(L, idx) IN IF v.t = "cfunc" THEN v.p ELSE ""
    : L \in {L0}})

\* A value-returning primitive that never raises was called (for the record of
\* what ran where).
Read(L, prim) == IF L.raised THEN L ELSE Quiet(L, prim)

\* A store through a native pointer into one of the host's output locations.
Store(L, ptr, x) ==
    IF L.raised THEN L
    ELSE IF ptr.s \in DOMAIN L.out THEN [L EXCEPT !.out[ptr.s] = x]
    ELSE [L EXCEPT !.ub = TRUE]

\* ------------------------------------------------------------------ tables
\* A table: its entries e, in traversal order, each a key and a non-nil value;
\* meta = "raise" when it has a metatable whose __index, __newindex and __len
\* raise, "none" when it has no metatable, "len0" or "len5" when it has a
\* metatable whose __len returns that integer, "lenbad" when its __len returns
\* a value that is no integer.
Table(e, meta) == [e |-> e, meta |-> meta]

KeyPos(t, k) == {i \in 1..Len(t.e) : t.e[i].k = k}

HasKey(t, k) == KeyPos(t, k) # {}

\* luaH_get
RawGet(t, k) == IF HasKey(t, k) THEN t.e[CHOOSE i \in KeyPos(t, k) : TRUE].v ELSE NilV

\* luaH_set and the assignment: nil removes the entry, a fresh key is added.
RawPut(t, k, v) ==
    LET keep == SelectSeq(t.e, LAMBDA kv : kv.k # k)
    IN  IF v = NilV THEN [t EXCEPT !.e = keep]
        ELSE IF HasKey(t, k)
        THEN [t EXCEPT !.e = [i \in 1..Len(t.e) |->
                                IF t.e[i].k = k THEN [k |-> k, v |-> v] ELSE t.e[i]]]
        ELSE [t EXCEPT !.e = Append(t.e, [k |-> k, v |-> v])]

\* luaH_getn: a border of the table.
RECURSIVE Border(_, _)
Border(t, n) == IF HasKey(t, IntV(n + 1)) THEN Border(t, n + 1) ELSE n

IsTable(L, idx) == index2value(L, idx).t = "table"

TableOf(L, idx) == L.tables[index2value(L, idx).n]

\* --------------------------------------------------- primitives that may raise
MemError == StrV(MsgMem)

\* lua_createtable [-0, +1, m]
lua_newtable(L0) ==
    Only({
        IF L.raised THEN L
        ELSE IF L.env.oom \/ Len(L.tables) >= MaxTables
        THEN Raise(L, "lua_newtable", MemError, LUA_ERRMEM)
        ELSE LET L1 == [L EXCEPT !.tables = Append(@, Table(<<>>, "none"))]
             IN  Push(Risky(L1, "lua_newtable"), TableV(Len(L1.tables)))
    : L \in {L0}})

\* lua_newthread [-0, +1, m]
lua_newthread(L0) ==
    Only({
        IF L.raised THEN L
        ELSE IF L.env.oom THEN Raise(L, "lua_newthread", MemError, LUA_ERRMEM)
        ELSE Push(Risky([L EXCEPT !.nobj = @ + 1], "lua_newthread"), ThreadV(L.nobj + 1))
    : L \in {L0}})

\* lua_newuserdata [-0, +1, m]
lua_newuserdata(L0, size) ==
    Only({
        IF L.raised THEN L
        ELSE IF L.env.oom THEN Raise(L, "lua_newuserdata", MemError, LUA_ERRMEM)
        ELSE Push(Risky([L EXCEPT !.nobj = @ + 1], "lua_newuserdata"), UdataV(L.nobj + 1))
    : L \in {L0}})

\* lua_pushcclosure [-n, +1, m]: with n = 0 a light C function is pushed and
\* nothing is allocated.
lua_pushcclosure(L0, fn, n) ==
    Only({
        IF L.raised THEN L
        ELSE IF n < 0 \/ n > lua_gettop(L) THEN Undefined(L, "lua_pushcclosure")
        ELSE IF n > 0 /\ L.env.oom THEN Raise(L, "lua_pushcclosure", MemError, LUA_ERRMEM)
        ELSE LET h == Len(L.stack)
                 ups == SubSeq(L.stack, h - n + 1, h)
             IN  [Risky(L, "lua_pushcclosure") EXCEPT
                     !.stack = Append(SubSeq(L.stack, 1, h - n), CFuncV(fn, ups))]
    : L \in {L0}})

\* lua_pushlstring [-0, +1, m]: the len bytes at ptr.
lua_pushlstring(L0, ptr, len) ==
    Only({
        IF L.raised THEN L
        ELSE IF len < 0 \/ len > Len(Mem(ptr.s)) THEN Undefined(L, "lua_pushlstring")
        ELSE IF L.env.oom THEN Raise(L, "lua_pushlstring", MemError, LUA_ERRMEM)
        ELSE Push(Risky(L, "lua_pushlstring"), StrV(SubSeq(Mem(ptr.s), 1, len)))
    : L \in {L0}})

\* strlen
StrLen(bytes) == (CHOOSE i \in 1..Len(bytes) : bytes[i] = 0 /\ \A j \in 1..(i - 1) : bytes[j] # 0) - 1

\* lua_pushstring [-0, +1, m]: the bytes at ptr up to the first zero; nil for NULL.
lua_pushstring(L0, ptr) ==
    Only({
        IF L.raised THEN L
        ELSE IF ptr = NULL THEN Push(Risky(L, "lua_pushstring"), NilV)
        ELSE IF L.env.oom THEN Raise(L, "lua_pushstring", MemError, LUA_ERRMEM)
        ELSE Push(Risky(L, "lua_pushstring"), StrV(SubSeq(Mem(ptr.s), 1, StrLen(Mem(ptr.s)))))
    : L \in {L0}})

\* lua_gettable [-1, +1, e]: pops the key and pushes t[k], t the value at idx;
\* the raw value when present, else what __index does.
lua_gettable(L0, idx) ==
    Only({
        IF L.raised THEN L
        ELSE IF lua_gettop(L) < 1 \/ ~ValidIndex(L, idx) THEN Undefined(L, "lua_gettable")
        ELSE LET k == L.stack[Len(L.stack)]
                 popped == [L EXCEPT !.stack = SubSeq(@, 1, Len(@) - 1)]
             IN  IF ~IsTable(L, idx)
                 THEN Raise(L, "lua_gettable", StrV(MsgIndex), LUA_ERRRUN)
                 ELSE IF ~HasKey(TableOf(L, idx), k) /\ TableOf(L, idx).meta = "raise"
                 THEN Raise(L, "lua_gettable", StrV(MsgMeta), LUA_ERRRUN)
                 ELSE Push(Risky(popped, "lua_gettable"), RawGet(TableOf(L, idx), k))
    : L \in {L0}})

\* lua_geti [-0, +1, e]: pushes t[i], t the value at idx; the raw value when
\* present, else what __index does.
lua_geti(L0, idx, i) ==
    Only({
        IF L.raised THEN L
        ELSE IF ~ValidIndex(L, idx) THEN Undefined(L, "lua_geti")
        ELSE IF ~IsTable(L, idx)
        THEN Raise(L, "lua_geti", StrV(MsgIndex), LUA_ERRRUN)
        ELSE IF ~HasKey(TableOf(L, idx), IntV(i)) /\ TableOf(L, idx).meta = "raise"
        THEN Raise(L, "lua_geti", StrV(MsgMeta), LUA_ERRRUN)
        ELSE Push(Risky(L, "lua_geti"), RawGet(TableOf(L, idx), IntV(i)))
    : L \in {L0}})

\* lua_rawset [-2, +0, m]: t[k] = v without metamethods, t the table at idx, v
\* the top and k the value below it; both are popped.
lua_rawset(L0, idx) ==
    Only({
        IF L.raised THEN L
        ELSE IF lua_gettop(L) < 2 \/ ~ValidIndex(L, idx) \/ ~IsTable(L, idx)
        THEN Undefined(L, "lua_rawset")
        ELSE LET h == Len(L.stack)
                 k == L.stack[h - 1]
                 v == L.stack[h]
                 id == index2value(L, idx).n
             IN  IF k = NilV THEN Raise(L, "lua_rawset", StrV(MsgNilKey), LUA_ERRRUN)
                 ELSE IF ~HasKey(L.tables[id], k) /\ v # NilV /\ L.env.oom
                 THEN Raise(L, "lua_rawset", MemError, LUA_ERRMEM)
                 ELSE [Risky(L, "lua_rawset") EXCEPT
                         !.stack = SubSeq(@, 1, h - 2),
                         !.tables[id] = RawPut(@, k, v)]
    : L \in {L0}})

\* lua_settable [-2, +0, e]: as lua_rawset, but a key that is absent goes
\* through __newindex, and a value that is no table cannot be indexed.
lua_settable(L0, idx) ==
    Only({
        IF L.raised THEN L
        ELSE IF lua_gettop(L) < 2 \/ ~ValidIndex(L, idx) THEN Undefined(L, "lua_settable")
        ELSE LET h == Len(L.stack)
                 k == L.stack[h - 1]
                 v == L.stack[h]
                 id == index2value(L, idx).n
             IN  IF ~IsTable(L, idx)
                 THEN Raise(L, "lua_settable", StrV(MsgIndex), LUA_ERRRUN)
                 ELSE IF ~HasKey(L.tables[id], k) /\ L.tables[id].meta = "raise"
                 THEN Raise(L, "lua_settable", StrV(MsgMeta), LUA_ERRRUN)
                 ELSE IF k = NilV THEN Raise(L, "lua_settable", StrV(MsgNilKey), LUA_ERRRUN)
                 ELSE IF ~HasKey(L.tables[id], k) /\ v # NilV /\ L.env.oom
                 THEN Raise(L, "lua_settable", MemError, LUA_ERRMEM)
                 ELSE [Risky(L, "lua_settable") EXCEPT
                         !.stack = SubSeq(@, 1, h - 2),
                         !.tables[id] = RawPut(@, k, v)]
    : L \in {L0}})

\* lua_next [-1, +(2|0), e]: pops the key; pushes the entry after it and
\* returns 1, or pushes nothing and returns 0 after the last one.  The value
\* returned is left in L.iret.
lua_next(L0, idx) ==
    Only({
        IF L.raised THEN L
        ELSE IF lua_gettop(L) < 1 \/ ~ValidIndex(L, idx) \/ ~IsTable(L, idx)
        THEN Undefined(L, "lua_next")
        ELSE LET k == L.stack[Len(L.stack)]
                 t == TableOf(L, idx)
                 popped == [L EXCEPT !.stack = SubSeq(@, 1, Len(@) - 1)]
                 i == IF k = NilV THEN 0 ELSE CHOOSE j \in KeyPos(t, k) : TRUE
             IN  IF k # NilV /\ ~HasKey(t, k)
                 THEN Raise(L, "lua_next", StrV(MsgNext), LUA_ERRRUN)
                 ELSE IF i < Len(t.e)
                 THEN [Push(Push(Risky(popped, "lua_next"), t.e[i + 1].k), t.e[i + 1].v)
                          EXCEPT !.iret = 1]
                 ELSE [Risky(popped, "lua_next") EXCEPT !.iret = 0]
    : L \in {L0}})

\* luaL_len [-0, +0, e]: the length of the value at idx, with __len honoured;
\* raises when the value has no length.  The length is left in L.iret.
\* The metatables whose __len returns an integer, and the integer it returns.
LenMetas == {"len0", "len5"}
MetaLength(meta) == IF meta = "len0" THEN 0 ELSE 5

\* "object length is not an integer"
MsgLenNotInt == <<111, 98, 106, 101, 99, 116, 32, 108, 101, 110, 103, 116, 104, 32, 105, 115,
                  32, 110, 111, 116, 32, 97, 110, 32, 105, 110, 116, 101, 103, 101, 114>>

luaL_len(L0, idx) ==
    Only({
        IF L.raised THEN L
        ELSE LET v == index2value(L, idx)
             IN  CASE v.t = "str" -> [Risky(L, "luaL_len") EXCEPT !.iret = Len(v.b)]
                   [] v.t = "table" /\ L.tables[v.n].meta = "raise" ->
                        Raise(L, "luaL_len", StrV(MsgMeta), LUA_ERRRUN)
                   [] v.t = "table" /\ L.tables[v.n].meta \in LenMetas ->
                        [Risky(L, "luaL_len") EXCEPT !.iret = MetaLength(L.tables[v.n].meta)]
                   [] v.t = "table" /\ L.tables[v.n].meta = "lenbad" ->
                        Raise(L, "luaL_len", StrV(MsgLenNotInt), LUA_ERRRUN)
                   [] v.t = "table" /\ L.tables[v.n].meta = "none" ->
                        [Risky(L, "luaL_len") EXCEPT !.iret = Border(L.tables[v.n], 0)]
                   [] OTHER -> Raise(L, "luaL_len", StrV(MsgLength), LUA_ERRRUN)
    : L \in {L0}})

\* lua_Integer to its decimal text (lua_Integer2str).
RECURSIVE Digits(_)
Digits(n) == IF n < 10 THEN <<48 + n>> ELSE Append(Digits(n \div 10), 48 + (n % 10))

tostringbuff(n) == IF n < 0 THEN <<45>> \o Digits(-n) ELSE Digits(n)

\* lua_tolstring [-0, +0, m]: a number at idx is converted to a string in its
\* slot; the string is left in L.sret, nil standing for NULL (the value is
\* neither a string nor a number).
lua_tostring(L0, idx) ==
    Only({
        IF L.raised THEN L
        ELSE LET v == index2value(L, idx)
             IN  CASE v.t = "str" -> [Risky(L, "lua_tostring") EXCEPT !.sret = v]
                   [] v.t = "int" /\ L.env.oom -> Raise(L, "lua_tostring", MemError, LUA_ERRMEM)
                   [] v.t = "int" /\ ~L.env.oom /\ ValidIndex(L, idx) ->
                        [Risky(L, "lua_tostring") EXCEPT
                            !.stack[Slot(L, idx)] = StrV(tostringbuff(v.n)),
                            !.sret = StrV(tostringbuff(v.n))]
                   [] OTHER -> [Risky(L, "lua_tostring") EXCEPT !.sret = NilV]
    : L \in {L0}})

\* lua_error [-1, +0, v]: raises with the value on the top of the stack.
lua_error(L0) ==
    Only({
        IF L.raised THEN L
        ELSE IF lua_gettop(L) < 1 THEN Undefined(L, "lua_error")
        ELSE Raise(L, "lua_error", L.stack[Len(L.stack)], LUA_ERRRUN)
    : L \in {L0}})

\* luaL_error [-0, +0, v]: raises with the message; luaL_where adds no position
\* for a C function.
luaL_error(L0, msg) ==
    Only({
        IF L.raised THEN L ELSE Raise(L, "luaL_error", StrV(msg), LUA_ERRRUN)
    : L \in {L0}})

\* ------------------------------------------------- the auxiliary closures
\* `return n` of a lua_CFunction: skipped when a raise left the function.
CReturn(L, n) == IF L.raised THEN L ELSE [L EXCEPT !.nret = n]

s_newtable(L0) ==
    Only({CReturn(lua_newtable(L), 1) : L \in {L0}})

s_len(L0) ==
    Only({CReturn(lua_pushinteger(L1, L1.iret), 1) : L1 \in {luaL_len(L0, -1)}})

s_geti(L0) ==
    Only({CReturn(lua_gettable(L, -2), 1) : L \in {L0}})

s_gettable(L0) ==
    Only({CReturn(lua_gettable(L, -2), 1) : L \in {L0}})

s_newthread(L0) ==
    Only({CReturn(lua_newthread(L), 1) : L \in {L0}})

s_newuserdata(L0) ==
    Only({
        LET size == lua_tointeger(L, -1)
            L1 == lua_pop(Read(L, "lua_tointeger"), 1)
            L2 == lua_newuserdata(L1, size)
        IN  CReturn(L2, 1)
    : L \in {L0}})

s_next(L0) ==
    Only({
        IF L1.iret = 0 THEN CReturn(L1, 0) ELSE CReturn(L1, 2)
    : L1 \in {lua_next(L0, -2)}})

s_pushcclosure(L0) ==
    Only({
        LET cf == lua_tocfunction(L, -1)
        IN  Only({
                CReturn(lua_pushcclosure(L1, cf, lua_gettop(L1)), 1)
            : L1 \in {lua_pop(Read(L, "lua_tocfunction"), 1)}})
    : L \in {L0}})

\* s_pushlstring as it would be if it pushed the bytes as a C string.
s_pushlstring_cstr(L0) ==
    Only({
        LET s == lua_touserdata(L, -2)
            L1 == lua_pop(Read(Read(L, "lua_touserdata"), "lua_tointeger"), 2)
            L2 == lua_pushstring(L1, s)
        IN  CReturn(L2, 1)
    : L \in {L0}})

s_pushlstring(L0) ==
    Only({
        LET s == lua_touserdata(L, -2)
            len == lua_tointeger(L, -1)
            L1 == lua_pop(Read(Read(L, "lua_touserdata"), "lua_tointeger"), 2)
            L2 == lua_pushlstring(L1, s, len)
        IN  CReturn(L2, 1)
    : L \in {L0}})

s_pushstring(L0) ==
    Only({
        LET s == lua_touserdata(L, -1)
            L1 == lua_pop(Read(L, "lua_touserdata"), 1)
            L2 == lua_pushstring(L1, s)
        IN  CReturn(L2, 1)
    : L \in {L0}})

s_rawset(L0) ==
    Only({CReturn(lua_rawset(L, -3), 0) : L \in {L0}})

s_settable(L0) ==
    Only({CReturn(lua_settable(L, -3), 0) : L \in {L0}})

s_tostring(L0) ==
    Only({
        LET s == lua_touserdata(L, -1)
        IN  Only({
                CReturn(lua_pop(Store(L1, s, L1.sret), 1), 1)
            : L1 \in {lua_tostring(Read(L, "lua_touserdata"), -2)}})
    : L \in {L0}})

\* ---------------------------------------------------- the callback trampoline
\* The host function behind a RustCallback pointer: it pushes the values and
\* returns the code the environment chose for this call (L.env.cb), leaving the
\* code in L.iret; the pointer called is recorded.
CallCallback(L0, callback) ==
    Only({
        IF L.raised THEN L
        ELSE IF callback.s \notin Callbacks THEN Undefined(L, "callback")
        ELSE [Quiet(L, "callback") EXCEPT
                 !.stack = @ \o L.env.cb.push,
                 !.called = Append(@, callback.s),
                 !.iret = L.env.cb.ret]
    : L \in {L0}})

\* s_call_rust as it would be with the two raising branches exchanged.
s_call_rust_swapped(L0) ==
    Only({
        LET callback == lua_touserdata(L, lua_upvalueindex(1))
        IN  Only({
                LET ret == L1.iret
                IN  IF ret = LUA_MULTRET THEN CReturn(L1, LUA_MULTRET)
                    ELSE IF ret = RCALL_STACK_ERR THEN lua_error(L1)
                    ELSE IF ret = RCALL_ERR THEN luaL_error(L1, MsgOverflow)
                    ELSE CReturn(L1, ret)
            : L1 \in {CallCallback(Read(L, "lua_touserdata"), callback)}})
    : L \in {L0}})

\* s_call_rust as it would be if it answered the variable-result marker with
\* the height of its stack.
s_call_rust_gettop(L0) ==
    Only({
        LET callback == lua_touserdata(L, lua_upvalueindex(1))
        IN  Only({
                LET ret == L1.iret
                IN  IF ret = LUA_MULTRET THEN CReturn(Read(L1, "lua_gettop"), lua_gettop(L1))
                    ELSE IF ret = RCALL_STACK_ERR THEN luaL_error(L1, MsgOverflow)
                    ELSE IF ret = RCALL_ERR THEN lua_error(L1)
                    ELSE CReturn(L1, ret)
            : L1 \in {CallCallback(Read(L, "lua_touserdata"), callback)}})
    : L \in {L0}})

\* s_call_rust as it would be without the branch for the overflow marker.
s_call_rust_nooverflow(L0) ==
    Only({
        LET callback == lua_touserdata(L, lua_upvalueindex(1))
        IN  Only({
                LET ret == L1.iret
                IN  IF ret = LUA_MULTRET THEN CReturn(L1, LUA_MULTRET)
                    ELSE IF ret = RCALL_ERR THEN lua_error(L1)
                    ELSE CReturn(L1, ret)
            : L1 \in {CallCallback(Read(L, "lua_touserdata"), callback)}})
    : L \in {L0}})

\* s_call_rust as it would be if it ended, like the auxiliary closures, with
\* `return 1`.
s_call_rust_one(L0) ==
    Only({
        LET callback == lua_touserdata(L, lua_upvalueindex(1))
        IN  Only({
                LET ret == L1.iret
                IN  IF ret = LUA_MULTRET THEN CReturn(L1, LUA_MULTRET)
                    ELSE IF ret = RCALL_STACK_ERR THEN luaL_error(L1, MsgOverflow)
                    ELSE IF ret = RCALL_ERR THEN lua_error(L1)
                    ELSE CReturn(L1, 1)
            : L1 \in {CallCallback(Read(L, "lua_touserdata"), callback)}})
    : L \in {L0}})

\* s_call_rust as it would be if it returned no values for a negative code
\* that is no marker.
s_call_rust_clamp(L0) ==
    Only({
        LET callback == lua_touserdata(L, lua_upvalueindex(1))
        IN  Only({
                LET ret == L1.iret
                IN  IF ret = LUA_MULTRET THEN CReturn(L1, LUA_MULTRET)
                    ELSE IF ret = RCALL_STACK_ERR THEN luaL_error(L1, MsgOverflow)
                    ELSE IF ret = RCALL_ERR THEN lua_error(L1)
                    ELSE IF ret < 0 THEN CReturn(L1, 0)
                    ELSE CReturn(L1, ret)
            : L1 \in {CallCallback(Read(L, "lua_touserdata"), callback)}})
    : L \in {L0}})

s_call_rust(L0) ==
    Only({
        LET callback == lua_touserdata(L, lua_upvalueindex(1))
        IN  Only({
                LET ret == L1.iret
                IN  IF ret = LUA_MULTRET THEN CReturn(L1, LUA_MULTRET)
                    ELSE IF ret = RCALL_STACK_ERR THEN luaL_error(L1, MsgOverflow)
                    ELSE IF ret = RCALL_ERR THEN lua_error(L1)
                    ELSE CReturn(L1, ret)
            : L1 \in {CallCallback(Read(L, "lua_touserdata"), callback)}})
    : L \in {L0}})

\* ------------------------------------------------------ the protected call
\* luaD_precall: the C function a function value runs.
CallC(L0, fn) ==
    Only({
        CASE fn = "s_newtable" -> s_newtable(L)
          [] fn = "s_len" -> s_len(L)
          [] fn = "s_geti" -> s_geti(L)
          [] fn = "s_gettable" -> s_gettable(L)
          [] fn = "s_newthread" -> s_newthread(L)
          [] fn = "s_newuserdata" -> s_newuserdata(L)
          [] fn = "s_next" -> s_next(L)
          [] fn = "s_pushcclosure" -> s_pushcclosure(L)
          [] fn = "s_pushlstring" -> s_pushlstring(L)
          [] fn = "s_pushstring" -> s_pushstring(L)
          [] fn = "s_rawset" -> s_rawset(L)
          [] fn = "s_settable" -> s_settable(L)
          [] fn = "s_tostring" -> s_tostring(L)
          [] fn = "s_call_rust" -> s_call_rust(L)
          [] OTHER -> Undefined(L, "call")
    : L \in {L0}})

\* What the engine takes as the results of a C function that returned the
\* variable-result marker: every value above the call's argument region.
ReturnAll(L, nargs) == SubSeq(L.stack, L.base + nargs + 1, Len(L.stack))

\* luaD_poscall: the values a C function that returned n hands back, the top n
\* of its stack.
Results(L0, nargs) ==
    Only({
        IF L.nret = LUA_MULTRET THEN ReturnAll(L, nargs)
        ELSE IF L.nret < 0 \/ L.nret > lua_gettop(L) THEN <<>>
        ELSE SubSeq(L.stack, Len(L.stack) - L.nret + 1, Len(L.stack))
    : L \in {L0}})

\* The results adjusted to the number the caller asked for.
Adjust(res, nresults) ==
    IF nresults = LUA_MULTRET THEN res
    ELSE [i \in 1..nresults |-> IF i <= Len(res) THEN res[i] ELSE NilV]

\* lua_pcall(L, nargs, nresults, 0) [-(nargs + 1), +(nresults|1), -]: calls the
\* function below the nargs arguments in protected mode.  On success the
\* function and the arguments are replaced by the results; on a raise, by the
\* error object.  The status is left in L.rc.
\* frames records, for each protected call, the callee and its arguments as
\* they were on the stack when it was entered.
lua_pcall(L0, nargs, nresults) ==
    Only({
        IF L.raised THEN L
        ELSE IF nargs < 0 \/ lua_gettop(L) < nargs + 1 THEN Undefined(L, "lua_pcall")
        ELSE LET fpos == Len(L.stack) - nargs
                 f == L.stack[fpos]
                 below == SubSeq(L.stack, 1, fpos - 1)
                 in0 == [Quiet(L, "lua_pcall") EXCEPT !.depth = @ + 1, !.base = fpos, !.cl = f,
                                                    !.frames = Append(@, SubSeq(L.stack, fpos, Len(L.stack)))]
                 called == IF f.t = "cfunc" THEN CallC(in0, f.p)
                           ELSE Raise(in0, "luaD_call", StrV(MsgCall), LUA_ERRRUN)
             IN  Only({
                    IF in1.raised
                    THEN [in1 EXCEPT !.stack = Append(below, in1.err),
                                     !.raised = FALSE,
                                     !.depth = L.depth, !.base = L.base, !.cl = L.cl,
                                     !.rc = in1.code, !.pcalls = Append(@, in1.code)]
                    ELSE [in1 EXCEPT !.stack = below \o Adjust(Results(in1, nargs), nresults),
                                     !.ub = @ \/ (in1.nret < LUA_MULTRET) \/ (in1.nret > lua_gettop(in1)),
                                     !.depth = L.depth, !.base = L.base, !.cl = L.cl,
                                     !.rc = LUA_OK, !.pcalls = Append(@, LUA_OK)]
                 : in1 \in {called}})
    : L \in {L0}})

\* ------------------------------------------------- the protected operations
\* `return r` of a wrapper: never reached when a raise unwound through it.
Return(L, r) == IF L.raised THEN L ELSE [L EXCEPT !.returned = TRUE, !.ret = r]

\* plua_newtable as it would be with the primitive called from the wrapper's
\* own frame.
plua_newtable_direct(L0) ==
    Only({Return(R, LUA_OK) : R \in {lua_newtable(L0)}})

\* plua_newtable as it would be if it reported every failure as a runtime error.
plua_newtable_recoded(L0) ==
    LET L1 == lua_pushcfunction(L0, "s_newtable")
    IN  Only({Return(R, IF R.rc = LUA_OK THEN LUA_OK ELSE LUA_ERRRUN) : R \in {lua_pcall(L1, 0, 1)}})

plua_newtable(L0) ==
    LET L1 == lua_pushcfunction(L0, "s_newtable")
    IN  Only({Return(R, R.rc) : R \in {lua_pcall(L1, 0, 1)}})

\* pluaL_len as it would be without the lua_pop after reading the length.
pluaL_len_nopop(L0, index, len) ==
    Only({
        LET idx == lua_absindex(L, index)
            L1 == lua_pushcfunction(Read(L, "lua_absindex"), "s_len")
            L2 == lua_pushvalue(L1, idx)
        IN  Only({
                IF r.rc = LUA_OK
                THEN Return(Store(Read(r, "lua_tointeger"), Ptr(len, 0), lua_tointeger(r, -1)), r.rc)
                ELSE Return(r, r.rc)
            : r \in {lua_pcall(L2, 1, 1)}})
    : L \in {L0}})

\* pluaL_len as it would be without the test of the status before *len is written.
pluaL_len_nocheck(L0, index, len) ==
    Only({
        LET idx == lua_absindex(L, index)
            L1 == lua_pushcfunction(Read(L, "lua_absindex"), "s_len")
            L2 == lua_pushvalue(L1, idx)
        IN  Only({
                IF r.rc = LUA_OK
                THEN Return(lua_pop(Store(Read(r, "lua_tointeger"), Ptr(len, 0),
                                          lua_tointeger(r, -1)), 1), r.rc)
                ELSE Return(Store(Read(r, "lua_tointeger"), Ptr(len, 0), lua_tointeger(r, -1)), r.rc)
            : r \in {lua_pcall(L2, 1, 1)}})
    : L \in {L0}})

\* pluaL_len as it would be without the lua_absindex.
pluaL_len_noabs(L0, index, len) ==
    Only({
        LET L1 == lua_pushcfunction(L, "s_len")
            L2 == lua_pushvalue(L1, index)
        IN  Only({
                IF r.rc = LUA_OK
                THEN Return(lua_pop(Store(Read(r, "lua_tointeger"), Ptr(len, 0),
                                          lua_tointeger(r, -1)), 1), r.rc)
                ELSE Return(r, r.rc)
            : r \in {lua_pcall(L2, 1, 1)}})
    : L \in {L0}})

pluaL_len(L0, index, len) ==
    Only({
        LET idx == lua_absindex(L, index)
            L1 == lua_pushcfunction(Read(L, "lua_absindex"), "s_len")
            L2 == lua_pushvalue(L1, idx)
        IN  Only({
                IF r.rc = LUA_OK
                THEN Return(lua_pop(Store(Read(r, "lua_tointeger"), Ptr(len, 0),
                                          lua_tointeger(r, -1)), 1), r.rc)
                ELSE Return(r, r.rc)
            : r \in {lua_pcall(L2, 1, 1)}})
    : L \in {L0}})

\* plua_geti as it would be if it pushed the integer before the table.
plua_geti_swapped(L0, index, i) ==
    Only({
        LET idx == lua_absindex(L, index)
            L1 == lua_pushcfunction(Read(L, "lua_absindex"), "s_geti")
            L2 == lua_pushinteger(L1, i)
            L3 == lua_pushvalue(L2, idx)
        IN  Only({Return(R, R.rc) : R \in {lua_pcall(L3, 2, 1)}})
    : L \in {L0}})

plua_geti(L0, index, i) ==
    Only({
        LET idx == lua_absindex(L, index)
            L1 == lua_pushcfunction(Read(L, "lua_absindex"), "s_geti")
            L2 == lua_pushvalue(L1, idx)
            L3 == lua_pushinteger(L2, i)
        IN  Only({Return(R, R.rc) : R \in {lua_pcall(L3, 2, 1)}})
    : L \in {L0}})

\* plua_gettable as it would be without the lua_absindex.
plua_gettable_noabs(L0, index) ==
    Only({
        LET L1 == lua_pushcfunction(L, "s_gettable")
            L2 == lua_pushvalue(L1, index)
            L3 == lua_rotate(L2, -3, -1)
        IN  Only({Return(R, R.rc) : R \in {lua_pcall(L3, 2, 1)}})
    : L \in {L0}})

plua_gettable(L0, index) ==
    Only({
        LET idx == lua_absindex(L, index)
            L1 == lua_pushcfunction(Read(L, "lua_absindex"), "s_gettable")
            L2 == lua_pushvalue(L1, idx)
            L3 == lua_rotate(L2, -3, -1)
        IN  Only({Return(R, R.rc) : R \in {lua_pcall(L3, 2, 1)}})
    : L \in {L0}})

plua_newthread(L0, thread) ==
    LET L1 == lua_pushcfunction(L0, "s_newthread")
    IN  Only({
            IF r.rc = LUA_OK
            THEN Return(Store(Read(r, "lua_tothread"), Ptr(thread, 0), lua_tothread(r, -1)), r.rc)
            ELSE Return(r, r.rc)
        : r \in {lua_pcall(L1, 0, 1)}})

\* plua_newuserdata as it would be with the created value popped after the
\* pointer is read.
plua_newuserdata_pop(L0, size, ud) ==
    LET L1 == lua_pushcfunction(L0, "s_newuserdata")
        L2 == lua_pushinteger(L1, size)
    IN  Only({
            IF r.rc = LUA_OK
            THEN Return(lua_pop(Store(Read(r, "lua_touserdata"), Ptr(ud, 0),
                                      lua_touserdata(r, -1)), 1), r.rc)
            ELSE Return(r, r.rc)
        : r \in {lua_pcall(L2, 1, 1)}})

plua_newuserdata(L0, size, ud) ==
    LET L1 == lua_pushcfunction(L0, "s_newuserdata")
        L2 == lua_pushinteger(L1, size)
    IN  Only({
            IF r.rc = LUA_OK
            THEN Return(Store(Read(r, "lua_touserdata"), Ptr(ud, 0), lua_touserdata(r, -1)), r.rc)
            ELSE Return(r, r.rc)
        : r \in {lua_pcall(L2, 1, 1)}})

\* plua_next as it would be with the depth before the call taken with the key
\* counted in.
plua_next_top(L0, index, res) ==
    Only({
        LET top == lua_gettop(L)
            idx == lua_absindex(L, index)
            L1 == lua_pushcfunction(Read(Read(L, "lua_gettop"), "lua_absindex"), "s_next")
            L2 == lua_pushvalue(L1, idx)
            L3 == lua_rotate(L2, -3, -1)
        IN  Only({
                IF r.rc = LUA_OK
                THEN IF lua_gettop(r) - top = 2
                     THEN Return(Store(Read(r, "lua_gettop"), Ptr(res, 0), 1), r.rc)
                     ELSE Return(Store(Read(r, "lua_gettop"), Ptr(res, 0), 0), r.rc)
                ELSE Return(r, r.rc)
            : r \in {lua_pcall(L3, 2, LUA_MULTRET)}})
    : L \in {L0}})

plua_next(L0, index, res) ==
    Only({
        LET top == lua_gettop(L) - 1
            idx == lua_absindex(L, index)
            L1 == lua_pushcfunction(Read(Read(L, "lua_gettop"), "lua_absindex"), "s_next")
            L2 == lua_pushvalue(L1, idx)
            L3 == lua_rotate(L2, -3, -1)
        IN  Only({
                IF r.rc = LUA_OK
                THEN IF lua_gettop(r) - top = 2
                     THEN Return(Store(Read(r, "lua_gettop"), Ptr(res, 0), 1), r.rc)
                     ELSE Return(Store(Read(r, "lua_gettop"), Ptr(res, 0), 0), r.rc)
                ELSE Return(r, r.rc)
            : r \in {lua_pcall(L3, 2, LUA_MULTRET)}})
    : L \in {L0}})

\* plua_pushcclosure as it would be if the auxiliary closure stayed above
\* the upvalues.
plua_pushcclosure_noinsert(L0, function, n) ==
    LET L1 == lua_pushcfunction(L0, "s_pushcclosure")
        L3 == lua_pushcfunction(L1, function)
    IN  Only({Return(R, R.rc) : R \in {lua_pcall(L3, n + 1, 1)}})

plua_pushcclosure(L0, function, n) ==
    LET L1 == lua_pushcfunction(L0, "s_pushcclosure")
        L2 == lua_insert(L1, -(n + 1))
        L3 == lua_pushcfunction(L2, function)
    IN  Only({Return(R, R.rc) : R \in {lua_pcall(L3, n + 1, 1)}})

plua_pushlstring(L0, s, len) ==
    LET L1 == lua_pushcfunction(L0, "s_pushlstring")
        L2 == lua_pushlightuserdata(L1, s)
        L3 == lua_pushinteger(L2, len)
    IN  Only({Return(R, R.rc) : R \in {lua_pcall(L3, 2, 1)}})

plua_pushstring(L0, s) ==
    LET L1 == lua_pushcfunction(L0, "s_pushstring")
        L2 == lua_pushlightuserdata(L1, s)
    IN  Only({Return(R, R.rc) : R \in {lua_pcall(L2, 1, 1)}})

plua_rawset(L0, index) ==
    LET L1 == lua_pushvalue(L0, index)
        L2 == lua_insert(L1, -3)
        L3 == lua_pushcfunction(L2, "s_rawset")
        L4 == lua_insert(L3, -4)
    IN  Only({Return(R, R.rc) : R \in {lua_pcall(L4, 3, 0)}})

\* plua_settable as it would be if it resolved the index after pushing the
\* auxiliary closure.
plua_settable_late(L0, index) ==
    LET L1 == lua_pushcfunction(L0, "s_settable")
        L2 == lua_insert(L1, -3)
        L3 == lua_pushvalue(L2, index)
        L4 == lua_insert(L3, -3)
    IN  Only({Return(R, R.rc) : R \in {lua_pcall(L4, 3, 0)}})

plua_settable(L0, index) ==
    LET L1 == lua_pushvalue(L0, index)
        L2 == lua_insert(L1, -3)
        L3 == lua_pushcfunction(L2, "s_settable")
        L4 == lua_insert(L3, -4)
    IN  Only({Return(R, R.rc) : R \in {lua_pcall(L4, 3, 0)}})

\* plua_tostring as it would be without the test of the status before lua_replace.
plua_tostring_nocheck(L0, index, s) ==
    Only({
        LET idx == lua_absindex(L, index)
            L1 == lua_pushcfunction(Read(L, "lua_absindex"), "s_tostring")
            L2 == lua_pushvalue(L1, idx)
            L3 == lua_pushlightuserdata(L2, s)
        IN  Only({Return(lua_replace(r, idx), r.rc) : r \in {lua_pcall(L3, 2, 1)}})
    : L \in {L0}})

\* plua_tostring as it would be without the lua_replace.
plua_tostring_noreplace(L0, index, s) ==
    Only({
        LET idx == lua_absindex(L, index)
            L1 == lua_pushcfunction(Read(L, "lua_absindex"), "s_tostring")
            L2 == lua_pushvalue(L1, idx)
            L3 == lua_pushlightuserdata(L2, s)
        IN  Only({Return(r, r.rc) : r \in {lua_pcall(L3, 2, 1)}})
    : L \in {L0}})

plua_tostring(L0, index, s) ==
    Only({
        LET idx == lua_absindex(L, index)
            L1 == lua_pushcfunction(Read(L, "lua_absindex"), "s_tostring")
            L2 == lua_pushvalue(L1, idx)
            L3 == lua_pushlightuserdata(L2, s)
        IN  Only({
                IF r.rc = LUA_OK THEN Return(lua_replace(r, idx), r.rc) ELSE Return(r, r.rc)
            : r \in {lua_pcall(L3, 2, 1)}})
    : L \in {L0}})

\* plua_pushrclosure as it would be without the lua_insert: the pointer is
\* captured last.
plua_pushrclosure_noinsert(L0, function, n) ==
    LET L1 == lua_pushlightuserdata(L0, function)
    IN  plua_pushcclosure(L1, "s_call_rust", n + 1)

plua_pushrclosure(L0, function, n) ==
    LET L1 == lua_pushlightuserdata(L0, function)
        L2 == lua_insert(L1, -(n + 1))
    IN  plua_pushcclosure(L2, "s_call_rust", n + 1)

\* ------------------------------------------------------------ the host's calls
\* What the environment decides during one call.
NoCallback == [push |-> <<>>, ret |-> 0]
Env(oom, cb) == [oom |-> oom, cb |-> cb]

\* The values the host keeps on the stack to start with, and pushes.
HostValues == {NilV, IntV(1), TableV(1), TableV(2), StrV(<<104, 105>>)}

\* The i-th value a host callback pushes.
CallbackValue(i) == IF i % 2 = 1 THEN IntV(6 + i) ELSE TableV(1)

\* What a host callback pushes: the first m of its values.
CallbackPushes == {[i \in 1..m |-> CallbackValue(i)] : m \in 0..MaxPush}

RECURSIVE SeqsUpTo(_, _)
SeqsUpTo(S, n) ==
    IF n = 0 THEN {<<>>}
    ELSE LET shorter == SeqsUpTo(S, n - 1)
         IN  shorter \cup {Append(q, x) : q \in {r \in shorter : Len(r) = n - 1}, x \in S}

\* The indices a host passes: absolute and relative.
Indices == {i \in -(InitLen + 2)..(InitLen + 2) : i # 0}

\* The host's view of the stack between calls: the base frame.
Host == [stack |-> stack, base |-> 0]

\* The state after a call that ended in R, and the record of the call.
Commit(op, index, n, p, result) ==
    /\ ncalls < MaxCalls
    /\ \E R \in {result} :
        /\ ncalls' = ncalls + 1
        /\ stack' = R.stack
        /\ tables' = R.tables
        /\ out' = R.out
        /\ nobj' = R.nobj
        /\ call' = [op |-> op, index |-> index, n |-> n, p |-> p, env |-> R.env,
                    before |-> stack, tablesBefore |-> tables, outBefore |-> out,
                    returned |-> R.returned, ret |-> R.ret, unwound |-> R.unwound,
                    ub |-> R.ub, err |-> R.err, pcalls |-> R.pcalls, frames |-> R.frames, nret |-> R.nret,
                    called |-> R.called, log |-> R.log]

Init ==
    /\ stack \in SeqsUpTo(HostValues, InitLen)
    /\ tables = <<Table(<<[k |-> IntV(1), v |-> IntV(7)]>>, "none"), Table(<<>>, "raise")>>
    /\ out = [len |-> -1, thread |-> 0, ud |-> NULL, res |-> -1, s |-> NilV]
    /\ nobj = 0
    /\ ncalls = 0
    /\ call = [op |-> "none", index |-> 0, n |-> 0, p |-> "", env |-> Env(FALSE, NoCallback),
               before |-> <<>>, tablesBefore |-> <<>>, outBefore |-> out,
               returned |-> FALSE, ret |-> LUA_OK, unwound |-> FALSE, ub |-> FALSE,
               err |-> NilV, pcalls |-> <<>>, frames |-> <<>>, nret |-> 0, called |-> <<>>, log |-> <<>>]

Call_plua_newtable ==
    \E oom \in BOOLEAN :
        Commit("plua_newtable", 0, 0, "", plua_newtable(Enter(Env(oom, NoCallback))))

Call_pluaL_len ==
    \E index \in Indices :
        /\ ValidIndex(Host, index)
        /\ Commit("pluaL_len", index, 0, "", pluaL_len(Enter(Env(FALSE, NoCallback)), index, "len"))

Call_plua_geti ==
    \E index \in Indices, i \in 1..2 :
        /\ ValidIndex(Host, index)
        /\ Commit("plua_geti", index, i, "", plua_geti(Enter(Env(FALSE, NoCallback)), index, i))

Call_plua_gettable ==
    \E index \in Indices :
        /\ ValidIndex(Host, index)
        /\ Commit("plua_gettable", index, 0, "", plua_gettable(Enter(Env(FALSE, NoCallback)), index))

Call_plua_newthread ==
    \E oom \in BOOLEAN :
        Commit("plua_newthread", 0, 0, "", plua_newthread(Enter(Env(oom, NoCallback)), "thread"))

Call_plua_newuserdata ==
    \E oom \in BOOLEAN, size \in {8} :
        Commit("plua_newuserdata", 0, size, "",
               plua_newuserdata(Enter(Env(oom, NoCallback)), size, "ud"))

Call_plua_next ==
    \E index \in Indices :
        /\ Len(stack) >= 1
        /\ ValidIndex(Host, index)
        /\ IsTable(Enter(Env(FALSE, NoCallback)), index)
        /\ Commit("plua_next", index, 0, "", plua_next(Enter(Env(FALSE, NoCallback)), index, "res"))

Call_plua_pushcclosure ==
    \E oom \in BOOLEAN, n \in 0..Len(stack) :
        Commit("plua_pushcclosure", 0, n, "host_fn",
               plua_pushcclosure(Enter(Env(oom, NoCallback)), "host_fn", n))

Call_plua_pushlstring ==
    \E oom \in BOOLEAN, s \in {"buf_a0b"} :
        \E len \in 0..Len(Mem(s)) :
            Commit("plua_pushlstring", 0, len, s,
                   plua_pushlstring(Enter(Env(oom, NoCallback)), s, len))

Call_plua_pushstring ==
    \E oom \in BOOLEAN, s \in Buffers \cup {""} :
        Commit("plua_pushstring", 0, 0, s, plua_pushstring(Enter(Env(oom, NoCallback)), s))

Call_plua_rawset ==
    \E oom \in BOOLEAN, index \in Indices :
        /\ Len(stack) >= 2
        /\ ValidIndex(Host, index)
        /\ IsTable(Enter(Env(oom, NoCallback)), index)
        /\ Commit("plua_rawset", index, 0, "", plua_rawset(Enter(Env(oom, NoCallback)), index))

Call_plua_settable ==
    \E oom \in BOOLEAN, index \in Indices :
        /\ Len(stack) >= 2
        /\ ValidIndex(Host, index)
        /\ Commit("plua_settable", index, 0, "", plua_settable(Enter(Env(oom, NoCallback)), index))

Call_plua_tostring ==
    \E oom \in BOOLEAN, index \in Indices :
        /\ ValidIndex(Host, index)
        /\ Commit("plua_tostring", index, 0, "", plua_tostring(Enter(Env(oom, NoCallback)), index, "s"))

Call_plua_pushrclosure ==
    \E oom \in BOOLEAN, function \in Callbacks, n \in 0..Len(stack) :
        Commit("plua_pushrclosure", 0, n, function,
               plua_pushrclosure(Enter(Env(oom, NoCallback)), function, n))

\* The trampoline-backed callable nargs below the top.
IsTrampoline(v) == v.t = "cfunc" /\ v.p = "s_call_rust"

\* The codes a host callback may return with h values on its stack: a count of
\* values it has, or a marker (the rethrow marker with an error value on top).
CallbackCodes(h) == {LUA_MULTRET, RCALL_STACK_ERR} \cup 0..h \cup (IF h >= 1 THEN {RCALL_ERR} ELSE {})

\* The i-th argument a call passes.
ArgValue(i) == IF i % 2 = 1 THEN IntV(1) ELSE NilV

\* The host (or a script) calls the trampoline-backed callable on the top of
\* the stack in protected mode: it pushes nargs arguments and asks for all the
\* results.
Invoke ==
    \E nargs \in 0..MaxArgs, push \in CallbackPushes :
        \E ret \in CallbackCodes(nargs + Len(push)) :
            /\ Len(stack) >= 1
            /\ IsTrampoline(stack[Len(stack)])
            /\ LET L0 == Enter(Env(FALSE, [push |-> push, ret |-> ret]))
                   L1 == [L0 EXCEPT !.stack = @ \o [i \in 1..nargs |-> ArgValue(i)]]
                   L2 == lua_pcall(L1, nargs, LUA_MULTRET)
               IN  Commit("invoke", 0, nargs, "", Return(L2, L2.rc))

\* lua_pushnil, lua_pushinteger, ...: the host pushes a value it holds.
HostPush ==
    \E v \in HostValues :
        Commit("push", 0, 0, "", Return(Push(Enter(Env(FALSE, NoCallback)), v), LUA_OK))

Next ==
    \/ Call_plua_newtable
    \/ Call_pluaL_len
    \/ Call_plua_geti
    \/ Call_plua_gettable
    \/ Call_plua_newthread
    \/ Call_plua_newuserdata
    \/ Call_plua_next
    \/ Call_plua_pushcclosure
    \/ Call_plua_pushlstring
    \/ Call_plua_pushstring
    \/ Call_plua_rawset
    \/ Call_plua_settable
    \/ Call_plua_tostring
    \/ Call_plua_pushrclosure
    \/ Invoke
    \/ HostPush

Spec == Init /\ [][Next]_vars

\* ------------------------------------------------- a traversal by the host
\* The host walks one table with plua_next: it starts from a nil key on the top
\* of the stack, and after each call that produced a pair it drops the value
\* and calls again with the key produced.
MaxKeys == 3        \* entries of the table that is walked, at most

\* The i-th key a walked table may hold, and the value stored under it.
IterKey(i) == IF i % 2 = 1 THEN IntV(i) ELSE StrV(<<104, 104 + i>>)
IterValue(k) == IF k.t = "int" THEN IntV(10 + k.n) ELSE IntV(20 + Len(k.b))

\* The entries of a walked table, in every traversal order of every choice of keys.
IterEntries ==
    {[i \in 1..Len(q) |-> [k |-> q[i], v |-> IterValue(q[i])]] :
        q \in {r \in SeqsUpTo({IterKey(i) : i \in 1..MaxKeys}, MaxKeys) :
                  \A i, j \in 1..Len(r) : i # j => r[i] # r[j]}}

\* The slot of the walked table.
IterTableAt == CHOOSE i \in 1..Len(stack) : stack[i] = TableV(1)

\* The state after a call that started from the stack `before` and ended in R,
\* and the record of the call; counted is 1 for a call the host counts.
HostCommit(op, index, before, R, counted) ==
    /\ ncalls' = ncalls + counted
    /\ stack' = R.stack
    /\ tables' = R.tables
    /\ out' = R.out
    /\ nobj' = R.nobj
    /\ call' = [op |-> op, index |-> index, n |-> 0, p |-> "", env |-> R.env,
                before |-> before, tablesBefore |-> tables, outBefore |-> out,
                returned |-> R.returned, ret |-> R.ret, unwound |-> R.unwound,
                ub |-> R.ub, err |-> R.err, pcalls |-> R.pcalls, frames |-> R.frames, nret |-> R.nret,
                called |-> R.called, log |-> R.log]

\* The state after a call of the walk that ended in R, and the record of the call.
IterCommit(op, index, R, counted) == HostCommit(op, index, stack, R, counted)

IterInit ==
    /\ \E below \in SeqsUpTo({IntV(1), NilV}, 1), between \in SeqsUpTo({IntV(1)}, 1) :
          stack = below \o <<TableV(1)>> \o between \o <<NilV>>
    /\ \E e \in IterEntries : tables = <<Table(e, "none")>>
    /\ out = [len |-> -1, thread |-> 0, ud |-> NULL, res |-> -1, s |-> NilV]
    /\ nobj = 0
    /\ ncalls = 0
    /\ call = [op |-> "none", index |-> 0, n |-> 0, p |-> "", env |-> Env(FALSE, NoCallback),
               before |-> <<>>, tablesBefore |-> <<>>, outBefore |-> out,
               returned |-> FALSE, ret |-> LUA_OK, unwound |-> FALSE, ub |-> FALSE,
               err |-> NilV, pcalls |-> <<>>, frames |-> <<>>, nret |-> 0, called |-> <<>>, log |-> <<>>]

\* The next step of the walk: the table is named by its absolute or by its
\* relative index.
Iter_plua_next ==
    /\ call.op \in {"none", "lua_pop"}
    /\ \E index \in {IterTableAt, IterTableAt - Len(stack) - 1} :
          \E R \in {plua_next(Enter(Env(FALSE, NoCallback)), index, "res")} :
              IterCommit("plua_next", index, R, 1)

\* lua_pop(state, 1): the host drops the value of the pair and keeps the key.
Iter_lua_pop ==
    /\ call.op = "plua_next"
    /\ call.ret = LUA_OK
    /\ out.res = 1
    /\ \E R \in {Return(lua_pop(Enter(Env(FALSE, NoCallback)), 1), LUA_OK)} :
          IterCommit("lua_pop", 0, R, 0)

IterStep ==
    \/ Iter_plua_next
    \/ Iter_lua_pop

IterSpec == IterInit /\ [][IterStep]_vars

\* ------------------------------------------- assignments and lookups by the host
\* The host keeps two tables at the bottom of the stack, the first plain and
\* the second with a metatable whose __index and __newindex raise.  To assign
\* it pushes a key and a value and calls plua_settable or plua_rawset; to look
\* up it pushes a key and calls plua_gettable.
MaxSteps == 3       \* assignments and lookups in one behaviour

\* The keys and the values the host assigns.
AssignKeys == {NilV, IntV(1), IntV(2), StrV(<<104, 105>>)}
AssignValues == {NilV, IntV(7), IntV(8), TableV(2)}

\* The indices that name table id (at slot id) on a stack of height h.
TableIndices(id, h) == {id, id - h - 1}

AssignInit ==
    /\ stack = <<TableV(1), TableV(2)>>
    /\ tables = <<Table(<<[k |-> IntV(1), v |-> IntV(7)]>>, "none"), Table(<<>>, "raise")>>
    /\ out = [len |-> -1, thread |-> 0, ud |-> NULL, res |-> -1, s |-> NilV]
    /\ nobj = 0
    /\ ncalls = 0
    /\ call = [op |-> "none", index |-> 0, n |-> 0, p |-> "", env |-> Env(FALSE, NoCallback),
               before |-> <<>>, tablesBefore |-> <<>>, outBefore |-> out,
               returned |-> FALSE, ret |-> LUA_OK, unwound |-> FALSE, ub |-> FALSE,
               err |-> NilV, pcalls |-> <<>>, frames |-> <<>>, nret |-> 0, called |-> <<>>, log |-> <<>>]

Assign_plua_settable ==
    /\ ncalls < MaxSteps
    /\ \E id \in 1..2, k \in AssignKeys, v \in AssignValues :
          \E index \in TableIndices(id, Len(stack) + 2) :
              \E L \in {Push(Push(Enter(Env(FALSE, NoCallback)), k), v)} :
                  \E R \in {plua_settable(L, index)} :
                      HostCommit("plua_settable", index, L.stack, R, 1)

Assign_plua_rawset ==
    /\ ncalls < MaxSteps
    /\ \E id \in 1..2, k \in AssignKeys, v \in AssignValues :
          \E index \in TableIndices(id, Len(stack) + 2) :
              \E L \in {Push(Push(Enter(Env(FALSE, NoCallback)), k), v)} :
                  \E R \in {plua_rawset(L, index)} :
                      HostCommit("plua_rawset", index, L.stack, R, 1)

Lookup_plua_gettable ==
    /\ ncalls < MaxSteps
    /\ \E id \in 1..2, k \in AssignKeys :
          \E index \in TableIndices(id, Len(stack) + 1) :
              \E L \in {Push(Enter(Env(FALSE, NoCallback)), k)} :
                  \E R \in {plua_gettable(L, index)} :
                      HostCommit("plua_gettable", index, L.stack, R, 1)

AssignStep ==
    \/ Assign_plua_settable
    \/ Assign_plua_rawset
    \/ Lookup_plua_gettable

AssignSpec == AssignInit /\ [][AssignStep]_vars

\* ------------------------------------------------------ length queries by the host
\* The host holds strings and tables of several lengths, tables with a __len
\* metamethod among them, and queries the length of a value on the stack.
MaxQueries == 2     \* length queries in one behaviour

\* The array entries 1..n of a table.
ArrayEntries(n) == [i \in 1..n |-> [k |-> IntV(i), v |-> IntV(6 + i)]]

\* The tables of the host: of native length 0, 1 and 2, with a __len that
\* returns 0 and 5, with a __len that raises, and with a __len that returns no
\* integer.
LenTables ==
    <<Table(ArrayEntries(0), "none"), Table(ArrayEntries(1), "none"),
      Table(ArrayEntries(2), "none"), Table(ArrayEntries(1), "len0"),
      Table(ArrayEntries(0), "len5"), Table(ArrayEntries(1), "raise"),
      Table(ArrayEntries(2), "lenbad")>>

\* The values the host queries.
LenValues ==
    {TableV(id) : id \in 1..Len(LenTables)} \cup {StrV(<<>>), StrV(<<104, 105>>), IntV(1), NilV}

LenInit ==
    /\ stack \in SeqsUpTo(LenValues, InitLen) \ {<<>>}
    /\ tables = LenTables
    /\ out = [len |-> -1, thread |-> 0, ud |-> NULL, res |-> -1, s |-> NilV]
    /\ nobj = 0
    /\ ncalls = 0
    /\ call = [op |-> "none", index |-> 0, n |-> 0, p |-> "", env |-> Env(FALSE, NoCallback),
               before |-> <<>>, tablesBefore |-> <<>>, outBefore |-> out,
               returned |-> FALSE, ret |-> LUA_OK, unwound |-> FALSE, ub |-> FALSE,
               err |-> NilV, pcalls |-> <<>>, frames |-> <<>>, nret |-> 0, called |-> <<>>, log |-> <<>>]

Query_pluaL_len ==
    /\ ncalls < MaxQueries
    /\ \E index \in Indices :
          /\ ValidIndex(Host, index)
          /\ \E R \in {pluaL_len(Enter(Env(FALSE, NoCallback)), index, "len")} :
                HostCommit("pluaL_len", index, stack, R, 1)

LenSpec == LenInit /\ [][Query_pluaL_len]_vars

\* The callable plua_pushrclosure builds from the top n values of a stack.
Trampoline(function, ups) == CFuncV("s_call_rust", <<LightV(function)>> \o ups)

\* ------------------------------------------------- the trampoline on its own
\* The engine has called a trampoline-backed callable: the stack is the frame
\* of s_call_rust, the callable in its first slot and the arguments above.
\* The host callback pushes values and returns any code; s_call_rust decodes it.
MaxCode == 3        \* the largest code a callback returns
MaxDecodes == 2     \* callbacks decoded in one behaviour

\* The codes a callback returns: the markers, literal counts, and negative
\* codes below the markers.
DecodeCodes == (RCALL_ERR - MaxCode)..MaxCode

DecodeInit ==
    /\ \E cb \in Callbacks, nargs \in 0..MaxArgs :
          stack = <<Trampoline(cb, <<>>)>> \o [i \in 1..nargs |-> ArgValue(i)]
    /\ tables = <<Table(<<[k |-> IntV(1), v |-> IntV(7)]>>, "none")>>
    /\ out = [len |-> -1, thread |-> 0, ud |-> NULL, res |-> -1, s |-> NilV]
    /\ nobj = 0
    /\ ncalls = 0
    /\ call = [op |-> "none", index |-> 0, n |-> 0, p |-> "", env |-> Env(FALSE, NoCallback),
               before |-> <<>>, tablesBefore |-> <<>>, outBefore |-> out,
               returned |-> FALSE, ret |-> LUA_OK, unwound |-> FALSE, ub |-> FALSE,
               err |-> NilV, pcalls |-> <<>>, frames |-> <<>>, nret |-> 0, called |-> <<>>,
               log |-> <<>>]

\* s_call_rust runs in the frame whose function is the callable at the bottom
\* of the stack; lua_error needs a value on top.
Decode_s_call_rust ==
    /\ ncalls < MaxDecodes
    /\ IsTrampoline(stack[1])
    /\ \E push \in CallbackPushes, ret \in DecodeCodes :
          /\ ret = RCALL_ERR => Len(stack) - 1 + Len(push) >= 1
          /\ \E R \in {s_call_rust([Enter(Env(FALSE, [push |-> push, ret |-> ret]))
                                      EXCEPT !.base = 1, !.cl = stack[1], !.depth = 1])} :
                HostCommit("s_call_rust", 0, stack, R, 1)

DecodeSpec == DecodeInit /\ [][Decode_s_call_rust]_vars

\* ------------------------------------------------------------- properties
\* The protected operations of the library.
ProtectedOps ==
    {"plua_newtable", "pluaL_len", "plua_geti", "plua_gettable", "plua_newthread",
     "plua_newuserdata", "plua_next", "plua_pushcclosure", "plua_pushlstring",
     "plua_pushstring", "plua_rawset", "plua_settable", "plua_tostring"}

\* The protected operations and the closure construction that delegates to one.
WrapperOps == ProtectedOps \cup {"plua_pushrclosure"}

\* The statuses lua_pcall reports.
Statuses == {LUA_OK, LUA_ERRRUN, LUA_ERRMEM}

\* The operands the last call takes from the top of the stack.
Operands ==
    CASE call.op \in {"plua_gettable", "plua_next"} -> 1
      [] call.op \in {"plua_rawset", "plua_settable"} -> 2
      [] call.op \in {"plua_pushcclosure", "plua_pushrclosure"} -> call.n
      [] OTHER -> 0

\* The slots below the operands of the last call, as they were before it.
Kept == SubSeq(call.before, 1, Len(call.before) - Operands)

\* The primitives of the last call that raised.
Raises == {i \in 1..Len(call.log) : call.log[i].raised}

\* The primitives of the last call that may raise.
RiskySteps == {i \in 1..Len(call.log) : call.log[i].risky}

\* The protected calls the last call made.
PcallSteps == {i \in 1..Len(call.log) : call.log[i].prim = "lua_pcall"}

\* The auxiliary closures of the library.
AuxClosures ==
    {"s_newtable", "s_len", "s_geti", "s_gettable", "s_newthread", "s_newuserdata",
     "s_next", "s_pushcclosure", "s_pushlstring", "s_pushstring", "s_rawset",
     "s_settable", "s_tostring"}

\* A value the wrappers push for their own use: an auxiliary closure or a light
\* pointer carrier.
IsResidue(v) == (v.t = "cfunc" /\ v.p \in AuxClosures) \/ v.t = "lud"

(***************************************************************************)
(* C1: in every protected operation the primitive that may raise runs only *)
(* inside the wrapper's own protected call (depth 1), every step outside   *)
(* it is a primitive that cannot raise, a raise is caught by that call and *)
(* shows as a non-success status, no raise unwinds past the caller, and    *)
(* the wrapper always returns one of lua_pcall's integer statuses.         *)
(***************************************************************************)
C1_RaiseContained ==
    call.op \in ProtectedOps =>
        /\ \A i \in RiskySteps : call.log[i].depth = 1
        /\ \A i \in 1..Len(call.log) :
              call.log[i].depth = 0 => ~call.log[i].risky /\ ~call.log[i].raised
        /\ \A i \in Raises : \E j \in PcallSteps : j < i /\ call.log[j].depth = 0
        /\ Raises # {} => call.ret # LUA_OK
        /\ ~call.unwound
        /\ call.returned
        /\ call.ret \in Statuses

\* A metamethod raised inside plua_settable's protected call and the wrapper
\* returned the runtime-error status.
C1_Witness ==
    /\ call.op = "plua_settable"
    /\ \E i \in Raises : call.log[i].prim = "lua_settable" /\ call.log[i].depth = 1
    /\ call.returned
    /\ call.ret = LUA_ERRRUN

(***************************************************************************)
(* C2: when a protected operation (or plua_pushrclosure) returns a         *)
(* non-success status, the stack is the slots below the operands,          *)
(* unchanged, with the error object as the one new value on top: the       *)
(* operands are consumed and nothing else remains; the height is the       *)
(* height before - operands + 1.                                           *)
(***************************************************************************)
C2_FailureShape ==
    (call.op \in WrapperOps /\ call.ret # LUA_OK) =>
        /\ stack = Append(Kept, call.err)
        /\ Len(stack) = Len(call.before) - Operands + 1

\* plua_rawset failed with two operands above a slot that stays.
C2_Witness ==
    /\ call.op = "plua_rawset"
    /\ call.ret # LUA_OK
    /\ Len(call.before) = 3
    /\ Len(stack) = 2
    /\ stack[2] = StrV(MsgNilKey)

\* plua_next has an entry to produce: the key on the top of the stack is not the
\* last key of the table the index designates.
PairProduced ==
    LET before == [stack |-> call.before, base |-> 0]
        t == call.tablesBefore[index2value(before, call.index).n]
        k == call.before[Len(call.before)]
    IN  IF k = NilV THEN Len(t.e) > 0 ELSE \E i \in KeyPos(t, k) : i < Len(t.e)

\* The change of height a successful call makes.
Delta ==
    CASE call.op \in {"plua_newtable", "plua_geti", "plua_newthread",
                      "plua_pushlstring", "plua_pushstring"} -> 1
      [] call.op \in {"pluaL_len", "plua_gettable", "plua_tostring"} -> 0
      [] call.op = "plua_next" -> IF PairProduced THEN 1 ELSE -1
      [] call.op \in {"plua_pushcclosure", "plua_pushrclosure"} -> 1 - call.n
      [] call.op \in {"plua_rawset", "plua_settable"} -> -2

\* The operations whose change of height the contract lists.
ShapedOps == WrapperOps \ {"plua_newuserdata"}

\* The slot plua_tostring replaces with the coerced value.
Coerced(i) ==
    /\ call.op = "plua_tostring"
    /\ i = Slot([stack |-> call.before, base |-> 0], call.index)

(***************************************************************************)
(* C3: a listed protected operation that returns success changes the       *)
(* height of the stack by exactly its results minus its operands           *)
(* (newtable +1, len 0, geti +1, gettable 0, newthread +1, next +1 with a  *)
(* pair and -1 when exhausted, pushcclosure and pushrclosure 1-n,          *)
(* pushlstring +1, pushstring +1, rawset -2, settable -2, tostring 0),     *)
(* leaves every slot below the operands as it was (plua_tostring's         *)
(* designated slot is its operand: it holds the coerced value), and leaves *)
(* no auxiliary closure or pointer carrier among the values it adds.       *)
(***************************************************************************)
C3_SuccessShape ==
    (call.op \in ShapedOps /\ call.ret = LUA_OK) =>
        /\ Len(stack) = Len(call.before) + Delta
        /\ \A i \in 1..Len(Kept) : Coerced(i) \/ stack[i] = call.before[i]
        /\ \A i \in (Len(Kept) + 1)..Len(stack) : ~IsResidue(stack[i])

\* plua_next produced a pair in place of the key, above a slot that stays.
C3_Witness ==
    /\ call.op = "plua_next"
    /\ call.ret = LUA_OK
    /\ PairProduced
    /\ Len(call.before) = 2
    /\ Len(stack) = 3

(***************************************************************************)
(* C4: a protected operation calls lua_pcall exactly once, so the risky    *)
(* primitive runs at most once; the status it returns is the status that   *)
(* call reported, failure or success alike; and on failure the error       *)
(* object on the top of the stack is the one that was raised.              *)
(***************************************************************************)
C4_TransparentRelay ==
    call.op \in WrapperOps =>
        /\ Cardinality(PcallSteps) = 1
        /\ Len(call.pcalls) = 1
        /\ Cardinality(RiskySteps) <= 1
        /\ call.ret = call.pcalls[1]
        /\ call.ret # LUA_OK =>
              /\ Raises # {}
              /\ stack[Len(stack)] = call.err

\* plua_newtable relayed the memory-error status of its one protected call.
C4_Witness ==
    /\ call.op = "plua_newtable"
    /\ call.pcalls = <<LUA_ERRMEM>>
    /\ call.ret = LUA_ERRMEM
    /\ stack[Len(stack)] = MemError

(***************************************************************************)
(* C5: a protected operation that returns a non-success status leaves      *)
(* every output location of the caller (len, thread, ud, res, s)           *)
(* holding the value it had before the call.                               *)
(***************************************************************************)
C5_OutputOnlyOnSuccess ==
    (call.op \in ProtectedOps /\ call.ret # LUA_OK) => out = call.outBefore

\* plua_tostring failed on a number it could not convert, after an earlier
\* call had written the string pointer.
C5_Witness ==
    /\ call.op = "plua_tostring"
    /\ call.ret = LUA_ERRMEM
    /\ call.outBefore.s # NilV
    /\ out.s = call.outBefore.s

\* The last call invoked a trampoline-backed callable.
Invoked == call.op = "invoke"

\* The stack below the callable that was invoked.
BelowCallable == SubSeq(call.before, 1, Len(call.before) - 1)

\* The arguments the invocation passed, and the stack of the host callback when
\* it returned: the arguments with the values it pushed above them.
InvokedArgs == [i \in 1..call.n |-> ArgValue(i)]
CallbackStack == InvokedArgs \o call.env.cb.push

\* The code the host callback returned.
Code == call.env.cb.ret

\* The top k values of a sequence.
TopOf(q, k) == SubSeq(q, Len(q) - k + 1, Len(q))

\* The bytes of needle occur in hay.
Contains(hay, needle) ==
    \E i \in 0..(Len(hay) - Len(needle)) : SubSeq(hay, i + 1, i + Len(needle)) = needle

\* "stack overflow"
TextStackOverflow == <<115, 116, 97, 99, 107, 32, 111, 118, 101, 114, 102, 108, 111, 119>>

(***************************************************************************)
(* C6: when the host callback returns the rethrow marker with an error     *)
(* value on the top of its stack, the raise is made by the trampoline's    *)
(* lua_error, once, and the protected call that invoked the callable fails *)
(* with that value, unmodified, as the one error object in place of the    *)
(* callable and its arguments.                                             *)
(***************************************************************************)
C6_Rethrow ==
    (Invoked /\ Code = RCALL_ERR) =>
        /\ call.ret = LUA_ERRRUN
        /\ Cardinality(Raises) = 1
        /\ \A i \in Raises : call.log[i].prim = "lua_error" /\ call.log[i].depth = 1
        /\ stack = Append(BelowCallable, CallbackStack[Len(CallbackStack)])

\* The callback pushed a table as its error value and the call failed with it.
C6_Witness ==
    /\ Invoked
    /\ Code = RCALL_ERR
    /\ Len(call.env.cb.push) = 2
    /\ call.ret = LUA_ERRRUN
    /\ stack[Len(stack)] = TableV(1)

C8_Overflow ==
    (Invoked /\ Code = RCALL_STACK_ERR) =>
        /\ call.ret = LUA_ERRRUN
        /\ \A i \in Raises : call.log[i].prim = "luaL_error" /\ call.log[i].depth = 1
        /\ Len(stack) = Len(BelowCallable) + 1
        /\ SubSeq(stack, 1, Len(BelowCallable)) = BelowCallable
        /\ stack[Len(stack)].t = "str"
        /\ Contains(stack[Len(stack)].b, TextStackOverflow)

\* The callback left values on its stack, returned the overflow marker, and
\* the call failed with the message alone.
C8_Witness ==
    /\ Invoked
    /\ Code = RCALL_STACK_ERR
    /\ Len(call.env.cb.push) >= 1
    /\ call.ret = LUA_ERRRUN
    /\ stack[Len(stack)] = StrV(MsgOverflow)

(***************************************************************************)
(* C9: when the host callback returns a count k >= 0, the trampoline does  *)
(* not raise and hands k to the engine, so the invoking call succeeds with *)
(* exactly the top k values of the callback's stack as its results; the    *)
(* trampoline raises exactly when the code is the overflow or the rethrow  *)
(* marker.                                                                 *)
(***************************************************************************)
C9_LiteralCount ==
    /\ (Invoked /\ Code >= 0) =>
          /\ call.ret = LUA_OK
          /\ Raises = {}
          /\ stack = BelowCallable \o TopOf(CallbackStack, Code)
    /\ Invoked => (Raises # {} <=> Code \in {RCALL_STACK_ERR, RCALL_ERR})

\* A callback pushed 3 values and returned 2: the call got the top two.
C9_Witness ==
    /\ Invoked
    /\ Code = 2
    /\ Len(call.env.cb.push) = 3
    /\ call.ret = LUA_OK
    /\ stack = BelowCallable \o <<CallbackValue(2), CallbackValue(3)>>


(***************************************************************************)
(* C10: a successful plua_pushrclosure(function, n) replaces the top n     *)
(* values by one callable whose code is the trampoline and whose upvalues  *)
(* are the function pointer, then the n values in their order; an          *)
(* invocation of a callable calls the pointer that is its upvalue 1, once, *)
(* and the invocation that follows a registration calls the pointer that   *)
(* was registered.                                                         *)
(***************************************************************************)
C10_ClosureLayout ==
    [][ /\ (call'.op = "plua_pushrclosure" /\ call'.ret = LUA_OK) =>
              stack' = Append(SubSeq(stack, 1, Len(stack) - call'.n),
                              Trampoline(call'.p, TopOf(stack, call'.n)))
        /\ call'.op = "invoke" =>
              /\ stack[Len(stack)].up[1] \in {LightV(f) : f \in Callbacks}
              /\ call'.called = <<stack[Len(stack)].up[1].p>>
        /\ (call.op = "plua_pushrclosure" /\ call.ret = LUA_OK /\ call'.op = "invoke") =>
              call'.called = <<call.p>>
      ]_vars

\* A callable that captured a value of the caller's besides the pointer cb2
\* was invoked, and cb2 was called.
C10_Witness ==
    /\ Invoked
    /\ Len(call.before[Len(call.before)].up) = 2
    /\ call.before[Len(call.before)].up[1] = LightV("cb2")
    /\ call.called = <<"cb2">>

\* The entries of the table the host walks, and the stack below the key of the
\* last call.
Walked == tables[1].e
BelowKey == SubSeq(call.before, 1, Len(call.before) - 1)

(***************************************************************************)
(* C11: a walk of a table of K entries that starts from a nil key, drops   *)
(* the value and keeps the key between calls, gets success from every      *)
(* call of plua_next; each of the first K calls writes res = 1 and leaves  *)
(* the next key and its value in place of the key, call K+1 writes res = 0 *)
(* and leaves nothing in place of the key; res is 1 exactly when the stack *)
(* after the protected call is two above the stack below the key.  This    *)
(* holds for every K up to MaxKeys and every traversal order.              *)
(***************************************************************************)
C11_Iteration ==
    /\ ncalls <= Len(Walked) + 1
    /\ call.op = "plua_next" =>
          /\ call.ret = LUA_OK
          /\ call.before[Len(call.before)] =
                (IF ncalls = 1 THEN NilV ELSE Walked[ncalls - 1].k)
          /\ ncalls <= Len(Walked) =>
                /\ out.res = 1
                /\ stack = BelowKey \o <<Walked[ncalls].k, Walked[ncalls].v>>
          /\ ncalls = Len(Walked) + 1 =>
                /\ out.res = 0
                /\ stack = BelowKey
          /\ out.res = 1 <=> Len(stack) - Len(BelowKey) = 2
    /\ call.op = "lua_pop" => stack = SubSeq(call.before, 1, Len(call.before) - 1)

\* The fourth call of a walk of three entries, the table named by a relative
\* index, found the table exhausted.
C11_Witness ==
    /\ call.op = "plua_next"
    /\ call.index < 0
    /\ Len(Walked) = 3
    /\ ncalls = 4
    /\ call.ret = LUA_OK
    /\ out.res = 0
    /\ Len(stack) = Len(call.before) - 1

\* The value an index designated on the stack a call started from.
Designated(c) == index2value([stack |-> c.before, base |-> 0, cl |-> NilV], c.index)

\* The key and the value of an assignment, and the key of a lookup.
AssignedKey(c) == c.before[Len(c.before) - 1]
AssignedValue(c) == c.before[Len(c.before)]
LookupKey(c) == c.before[Len(c.before)]

Succeeded(op) == call.op = op /\ call.ret = LUA_OK

\* plua_newthread left the new thread as the one new value on top and wrote
\* its handle.
ThreadHandedBack ==
    Succeeded("plua_newthread") =>
        /\ stack = Append(call.before, ThreadV(nobj))
        /\ out.thread = lua_tothread([stack |-> stack, base |-> 0, cl |-> NilV], -1)
        /\ out.thread = nobj

(***************************************************************************)
(* C13, as stated: a successful plua_newuserdata writes the block's        *)
(* pointer and pops the created value, so the height of the stack is the   *)
(* height before the call; a successful plua_newthread writes the thread's *)
(* handle and leaves the thread as the one new value on top.               *)
(***************************************************************************)
C13_UserdataPopped ==
    /\ Succeeded("plua_newuserdata") =>
          /\ out.ud = Ptr("udata", nobj)
          /\ Len(stack) = Len(call.before)
          /\ stack = call.before
    /\ ThreadHandedBack

(***************************************************************************)
(* C13, amended: a successful plua_newuserdata writes the block's pointer  *)
(* and leaves the created userdata as the one new value on top (height     *)
(* before + 1), the pointer written being that of the value left on top;   *)
(* a successful plua_newthread writes the thread's handle and leaves the   *)
(* thread as the one new value on top, the handle written being that of    *)
(* the value left on top.                                                  *)
(***************************************************************************)
C13_HandlesOfValuesOnTop ==
    /\ Succeeded("plua_newuserdata") =>
          /\ stack = Append(call.before, UdataV(nobj))
          /\ out.ud = lua_touserdata([stack |-> stack, base |-> 0, cl |-> NilV], -1)
          /\ out.ud = Ptr("udata", nobj)
    /\ ThreadHandedBack

\* A second block was created above the first: its pointer was written and it
\* is on the top of the stack.
C13_Witness ==
    /\ Succeeded("plua_newuserdata")
    /\ nobj = 2
    /\ out.ud = Ptr("udata", 2)
    /\ stack[Len(stack)] = UdataV(2)
    /\ Len(stack) = Len(call.before) + 1

\* The slot the index of the last call designated, and the value it held.
DesignatedSlot == Slot([stack |-> call.before, base |-> 0], call.index)
Original == call.before[DesignatedSlot]

\* The string a string or a number is coerced to.
CoercedValue(v) == IF v.t = "int" THEN StrV(tostringbuff(v.n)) ELSE v

\* A successful plua_tostring left the height and every slot but the designated
\* one as they were.
OnlyDesignatedSlotChanged ==
    Succeeded("plua_tostring") =>
        /\ Len(stack) = Len(call.before)
        /\ \A i \in 1..Len(stack) : i # DesignatedSlot => stack[i] = call.before[i]

\* A failed plua_tostring left the designated slot as it was and pushed the one
\* error object.
FailedCoercionKeepsSlot ==
    (call.op = "plua_tostring" /\ call.ret # LUA_OK) =>
        /\ stack = Append(call.before, call.err)
        /\ stack[DesignatedSlot] = Original

(***************************************************************************)
(* C14, as stated: after a successful plua_tostring the designated slot    *)
(* holds the coerced value, a string, and the pointer written to s refers  *)
(* to the string held in that slot; the height is unchanged and no other   *)
(* slot changes; after a failed one the designated slot holds its original *)
(* value and exactly one error object has been pushed.                     *)
(***************************************************************************)
C14_InPlaceString ==
    /\ Succeeded("plua_tostring") =>
          /\ stack[DesignatedSlot].t = "str"
          /\ out.s = stack[DesignatedSlot]
    /\ OnlyDesignatedSlotChanged
    /\ FailedCoercionKeepsSlot

(***************************************************************************)
(* C14, amended: after a successful plua_tostring of a string or a number  *)
(* the designated slot holds the coerced value and the pointer written to  *)
(* s refers to the string held in that slot; after a successful one of any *)
(* other value the slot holds its original value and the pointer written   *)
(* is null; in both cases the height is unchanged and no other slot        *)
(* changes; after a failed one the designated slot holds its original      *)
(* value and exactly one error object has been pushed.                     *)
(***************************************************************************)
C14_InPlaceReplace ==
    /\ Succeeded("plua_tostring") =>
          IF Original.t \in {"str", "int"}
          THEN /\ stack[DesignatedSlot] = CoercedValue(Original)
               /\ out.s = stack[DesignatedSlot]
          ELSE /\ stack[DesignatedSlot] = Original
               /\ out.s = NilV
    /\ OnlyDesignatedSlotChanged
    /\ FailedCoercionKeepsSlot

\* A number named by a relative index, below another value, was replaced by its
\* text, and s refers to that text.
C14_Witness ==
    /\ Succeeded("plua_tostring")
    /\ call.index = -2
    /\ Original = IntV(1)
    /\ stack[DesignatedSlot] = StrV(<<49>>)
    /\ out.s = StrV(<<49>>)
    /\ Len(stack) = Len(call.before)

\* The native length of a table without a metatable: the number of its
\* consecutive integer keys from 1.
NativeLength(t) ==
    Cardinality({n \in 1..Len(t.e) : \A m \in 1..n : \E i \in 1..Len(t.e) : t.e[i].k = IntV(m)})

\* The value v has a length: it is a string, a table without a metatable, or a
\* table whose __len returns an integer.
HasLength(v) ==
    \/ v.t = "str"
    \/ v.t = "table" /\ call.tablesBefore[v.n].meta \in {"none"} \cup LenMetas

\* The length of a value that has one.
LengthOf(v) ==
    IF v.t = "str" THEN Len(v.b)
    ELSE IF call.tablesBefore[v.n].meta = "none" THEN NativeLength(call.tablesBefore[v.n])
    ELSE MetaLength(call.tablesBefore[v.n].meta)

(***************************************************************************)
(* C15: pluaL_len on a value whose length is N, native or returned by a    *)
(* __len metamethod, N = 0 included, returns success, writes N to the      *)
(* output location and leaves the stack as it was before the call; the     *)
(* value whose length is taken is the one at the caller's index.           *)
(***************************************************************************)
C15_Length ==
    (call.op = "pluaL_len" /\ HasLength(Original)) =>
        /\ call.ret = LUA_OK
        /\ out.len = LengthOf(Original)
        /\ stack = call.before
        /\ tables = call.tablesBefore

\* The length 0 of an empty table named by a relative index, below a table
\* whose __len returns 5, was written over an earlier result.
C15_Witness ==
    /\ call.op = "pluaL_len"
    /\ call.index = -2
    /\ call.before = <<TableV(1), TableV(5)>>
    /\ call.outBefore.len = 5
    /\ call.ret = LUA_OK
    /\ out.len = 0

\* The len bytes at the address the last call was given.
GivenBytes(c) == SubSeq(Mem(c.p), 1, c.n)

\* The steps of the last call that read a carrier inside the protected call.
CarrierReads(prim) == {i \in 1..Len(call.log) : call.log[i].prim = prim /\ call.log[i].depth >= 1}

\* What plua_pushlstring leaves: on success the stack as before with one
\* string of exactly the given bytes on top, on failure the stack as before
\* with the error on top; both carriers were read inside the protected call,
\* before the step that makes the string.
PushedExactly ==
    /\ call.ret = LUA_OK =>
          /\ stack = Append(call.before, StrV(GivenBytes(call)))
          /\ Len(stack[Len(stack)].b) = call.n
    /\ call.ret # LUA_OK => stack = Append(call.before, call.err) /\ call.err.t = "str"
    /\ \A i \in (Len(call.before) + 1)..Len(stack) : stack[i].t # "light" /\ stack[i].t # "int"
    /\ CarrierReads("lua_touserdata") # {} /\ CarrierReads("lua_tointeger") # {}
    /\ \A i \in CarrierReads("lua_touserdata") \cup CarrierReads("lua_tointeger") :
          \A j \in RiskySteps : i < j

(***************************************************************************)
(* C16: plua_pushlstring(s, len) on success pushes one string of exactly   *)
(* the len bytes at s, embedded zero bytes included, and reading that      *)
(* string back with plua_tostring gives the same bytes and the same        *)
(* length; the light pointer and the integer that carry the arguments are  *)
(* read inside the protected call and are on the stack neither after a     *)
(* success nor after a failure.                                            *)
(***************************************************************************)
C16_ByteExact ==
    [][/\ call'.op = "plua_pushlstring" => PushedExactly'
       /\ (/\ call.op = "plua_pushlstring" /\ call.ret = LUA_OK
           /\ call'.op = "plua_tostring" /\ call'.ret = LUA_OK
           /\ call'.index \in {-1, Len(stack)})
          => /\ out'.s = StrV(GivenBytes(call))
             /\ Len(out'.s.b) = call.n
             /\ stack' = stack]_vars

\* Three bytes with a zero in the middle were pushed and read back.
C16_Witness ==
    /\ call.op = "plua_tostring"
    /\ call.ret = LUA_OK
    /\ call.before # <<>>
    /\ call.before[Len(call.before)] = StrV(<<97, 0, 98>>)
    /\ out.s = StrV(<<97, 0, 98>>)
    /\ stack = call.before

\* The values below the top n of the stack q.
BelowTop(q, n) == SubSeq(q, 1, Len(q) - n)

(***************************************************************************)
(* C17: plua_pushcclosure(function, n) with at least n values on the       *)
(* stack, n = 0 included, enters its one protected call with the auxiliary *)
(* closure below the top n values and the function pointer above them, and *)
(* on success leaves the values below the top n where they were, with one  *)
(* closure of the given function on top whose upvalues 1..n are the n      *)
(* values in their bottom-to-top order.                                    *)
(***************************************************************************)
C17_ClosureOfTopN ==
    (call.op = "plua_pushcclosure" /\ call.n <= Len(call.before)) =>
        /\ call.frames = << <<CFuncV("s_pushcclosure", <<>>)>> \o TopOf(call.before, call.n)
                              \o <<CFuncV(call.p, <<>>)>> >>
        /\ call.ret = LUA_OK =>
              /\ stack = Append(BelowTop(call.before, call.n),
                                CFuncV(call.p, TopOf(call.before, call.n)))
              /\ \A i \in 1..call.n :
                    stack[Len(stack)].up[i] = call.before[Len(call.before) - call.n + i]
        /\ call.ret # LUA_OK => stack = Append(BelowTop(call.before, call.n), call.err)

\* A closure captured the upper of two different values and left the lower
\* one where it was.
C17_Witness ==
    /\ call.op = "plua_pushcclosure"
    /\ call.ret = LUA_OK
    /\ call.n = 1
    /\ Len(call.before) = 2
    /\ call.before[1] # call.before[2]
    /\ stack = <<call.before[1], CFuncV("host_fn", <<call.before[2]>>)>>

\* The protected operations that take a stack index, and the auxiliary
\* closure of each.
IndexedOps ==
    {"pluaL_len", "plua_geti", "plua_gettable", "plua_next", "plua_rawset", "plua_settable",
     "plua_tostring"}
AuxOf(op) ==
    CASE op = "pluaL_len" -> "s_len"
      [] op = "plua_geti" -> "s_geti"
      [] op = "plua_gettable" -> "s_gettable"
      [] op = "plua_next" -> "s_next"
      [] op = "plua_rawset" -> "s_rawset"
      [] op = "plua_settable" -> "s_settable"
      [] op = "plua_tostring" -> "s_tostring"

\* The slot the index of the last call named when the call was made.
SlotAtCall == IF call.index > 0 THEN call.index ELSE Len(call.before) + call.index + 1

\* The operands the last call passes to its auxiliary closure after the
\* designated value.
PassedAfter ==
    CASE call.op = "pluaL_len" -> <<>>
      [] call.op = "plua_geti" -> <<IntV(call.n)>>
      [] call.op \in {"plua_gettable", "plua_next"} -> TopOf(call.before, 1)
      [] call.op \in {"plua_rawset", "plua_settable"} -> TopOf(call.before, 2)
      [] call.op = "plua_tostring" -> <<LightV("s")>>

\* The steps of the last call that resolve the index, and those that push or
\* move a value.
Resolving ==
    {i \in 1..Len(call.log) :
        \/ call.log[i].prim = "lua_absindex"
        \/ call.log[i].prim = "lua_pushvalue" /\ call.op \in {"plua_rawset", "plua_settable"}}
Moving ==
    {i \in 1..Len(call.log) :
        \/ call.log[i].prim \in {"lua_pushcfunction", "lua_pushinteger", "lua_pushlightuserdata",
                                 "lua_insert", "lua_rotate"}
        \/ call.log[i].prim = "lua_pushvalue" /\ call.op \notin {"plua_rawset", "plua_settable"}}

(***************************************************************************)
(* C18: every protected operation that takes a stack index works on the    *)
(* value that was at that index when the call was made, for absolute and   *)
(* relative indices: the index is resolved before the wrapper pushes or    *)
(* moves anything, the one protected call is entered with the auxiliary    *)
(* closure, then that value, then the other operands, and plua_tostring    *)
(* writes to no other slot.                                                *)
(***************************************************************************)
C18_IndexResolvedFirst ==
    (call.op \in IndexedOps /\ SlotAtCall \in 1..Len(call.before)) =>
        /\ Resolving # {}
        /\ \A m \in Moving : \E r \in Resolving : r < m
        /\ call.frames = << <<CFuncV(AuxOf(call.op), <<>>), call.before[SlotAtCall]>>
                              \o PassedAfter >>
        /\ call.op = "plua_tostring" =>
              \A i \in 1..Len(call.before) : i # SlotAtCall => stack[i] = call.before[i]

\* plua_settable, given the relative index of a table below a key and a
\* value that are no tables, assigned to that table.
C18_Witness ==
    /\ call.op = "plua_settable"
    /\ call.index = -3
    /\ call.ret = LUA_OK
    /\ Len(call.before) = 3
    /\ call.before[1].t = "table"
    /\ call.before[2].t # "table" /\ call.before[3].t # "table"
    /\ tables # call.tablesBefore

\* The operations that wrap one table primitive.
TableOps == {"plua_geti", "plua_gettable", "plua_next", "plua_rawset", "plua_settable"}

\* The Lua state the last call started from.
StateAtCall ==
    [Enter(call.env) EXCEPT !.stack = call.before, !.tables = call.tablesBefore,
                            !.out = call.outBefore]

\* What a direct call of the raw primitive with the same index leaves from
\* that state.
Direct ==
    CASE call.op = "plua_geti" -> lua_geti(StateAtCall, call.index, call.n)
      [] call.op = "plua_gettable" -> lua_gettable(StateAtCall, call.index)
      [] call.op = "plua_next" -> lua_next(StateAtCall, call.index)
      [] call.op = "plua_rawset" -> lua_rawset(StateAtCall, call.index)
      [] call.op = "plua_settable" -> lua_settable(StateAtCall, call.index)

(***************************************************************************)
(* C19: when the raw primitive (lua_geti, lua_gettable, lua_next,          *)
(* lua_rawset, lua_settable), called directly with the same index on the   *)
(* same stack, does not raise, the wrapper returns success and leaves the  *)
(* stack and the tables exactly as the direct call would, and plua_next    *)
(* writes lua_next's return value to its output location.                  *)
(***************************************************************************)
C19_SameAsDirect ==
    call.op \in TableOps =>
        \A D \in {Direct} :
            (~D.raised /\ ~D.ub) =>
                /\ call.ret = LUA_OK
                /\ stack = D.stack
                /\ tables = D.tables
                /\ call.op = "plua_next" => out.res = D.iret
                /\ call.op # "plua_next" => out = call.outBefore

\* plua_geti, given a relative index, read a value that is present, as
\* lua_geti would.
C19_Witness ==
    /\ call.op = "plua_geti"
    /\ call.index < 0
    /\ call.ret = LUA_OK
    /\ ~Direct.raised
    /\ stack = Append(call.before, IntV(7))

\* The three reserved codes.
Markers == {LUA_MULTRET, RCALL_STACK_ERR, RCALL_ERR}

\* The last step decoded a callback's code.
Decoded == call.op = "s_call_rust"

\* The frame of s_call_rust when the callback had returned.
DecodedStack == call.before \o call.env.cb.push

(***************************************************************************)
(* C20: the three reserved codes are pairwise distinct and negative, and   *)
(* s_call_rust decodes every code to exactly one outcome: the              *)
(* variable-result marker returns all values, the stack-overflow marker    *)
(* raises the fixed message, the rethrow marker raises the value on top,   *)
(* and any other code, negative ones included, is returned to the engine   *)
(* unchanged without a raise; no outcome of one kind comes from a code of  *)
(* another kind.                                                           *)
(***************************************************************************)
C20_Decoding ==
    /\ Cardinality(Markers) = 3
    /\ \A m \in Markers : m < 0
    /\ Decoded =>
          /\ call.called = <<call.before[1].up[1].p>>
          /\ Code = LUA_MULTRET => Raises = {} /\ call.nret = LUA_MULTRET
          /\ Code = RCALL_STACK_ERR =>
                /\ Raises # {}
                /\ call.err.t = "str" /\ Contains(call.err.b, TextStackOverflow)
          /\ Code = RCALL_ERR => Raises # {} /\ call.err = DecodedStack[Len(DecodedStack)]
          /\ Code \notin Markers => Raises = {} /\ call.nret = Code /\ ~call.ub
          /\ Raises # {} => Code \in {RCALL_STACK_ERR, RCALL_ERR}
          /\ (Raises = {} /\ call.nret = LUA_MULTRET) => Code = LUA_MULTRET
          /\ Raises = {} => stack = DecodedStack
          /\ \A i \in Raises : call.log[i].prim \in {"luaL_error", "lua_error"}

\* A callback returned a negative code below the three markers, and the
\* trampoline returned that code.
C20_Witness ==
    /\ Decoded
    /\ Code = RCALL_ERR - 1
    /\ call.nret = RCALL_ERR - 1
    /\ Raises = {}
    /\ call.env.cb.push # <<>>

====
